---- MODULE Spec2Model ----
(***************************************************************************)
(* The surface layout engine of the swr gallium screen                      *)
(* (swr_texture_layout, swr_can_create_resource, swr_resource_create,       *)
(* swr_resource_destroy), and the window buffer exchange of the Android EGL *)
(* platform (droid_window_dequeue_buffer, droid_window_enqueue_buffer and   *)
(* their callers).                                                          *)
(*                                                                          *)
(* C "unsigned" values are 32 bits wide and size_t is 64 bits wide.  TLC    *)
(* integers stop at 2^31 - 1, so every addition and multiplication of the   *)
(* layout goes through exact multi-limb arithmetic (the W* operators) and   *)
(* is then reduced modulo 2^32 or 2^64 as the C type of the expression      *)
(* demands.  A 32-bit value of 2^31 or more cannot be held in a TLC integer *)
(* and makes TLC stop with an overflow error instead of a wrong value.      *)
(***************************************************************************)
EXTENDS Integers, Sequences, FiniteSets, TLC

VARIABLES
    templ,   \* const struct pipe_resource *templat handed to the screen
    res,     \* the struct swr_resource of swr_resource_create (NoRes: NULL)
    heap,    \* the live heap blocks and display targets
    ret,     \* the last screen call and what it returned
    screen,  \* struct swr_screen: the context and the state of the flush fence
    log,     \* the calls the last swr_resource_destroy made, in order
    surf,    \* struct dri2_egl_surface of the Android EGL platform
    win,     \* the ANativeWindow behind the surface and its buffers
    egl,     \* the display mutex and where each thread stands
    dpy,     \* the _EGLDisplay under dri2_initialize_android
    blt      \* the i965 blitter: the batch and the blits emitted into it

swrVars == <<templ, res, heap, ret, screen, log>>
droidVars == <<surf, win, egl>>
vars == <<templ, res, heap, ret, screen, log, surf, win, egl, dpy, blt>>

(***************************************************************************)
(* Exact arithmetic on naturals held as little-endian limbs of 15 bits.     *)
(***************************************************************************)
LimbBase == 2^15
NumLimbs == 3 + 4
Limbs == 1..NumLimbs

Wide(n) ==
    [i \in Limbs |->
        IF i = 1 THEN n % LimbBase
        ELSE IF i = 2 THEN (n \div LimbBase) % LimbBase
        ELSE IF i = 3 THEN n \div (LimbBase * LimbBase)
        ELSE 0]

RECURSIVE WCarry(_, _, _)
\* propagate carries through a vector of limb sums, from limb i upward
WCarry(s, i, carry) ==
    IF i > NumLimbs THEN <<>>
    ELSE LET v == s[i] + carry
         IN  <<v % LimbBase>> \o WCarry(s, i + 1, v \div LimbBase)

WAdd(a, b) == WCarry([i \in Limbs |-> a[i] + b[i]], 1, 0)

WMulLimb(a, d) == WCarry([i \in Limbs |-> a[i] * d], 1, 0)

WShift(a, k) == [i \in Limbs |-> IF i <= k THEN 0 ELSE a[i - k]]

RECURSIVE WMulFrom(_, _, _)
WMulFrom(a, b, i) ==
    IF i > NumLimbs THEN Wide(0)
    ELSE IF b[i] = 0 THEN WMulFrom(a, b, i + 1)
    ELSE WAdd(WShift(WMulLimb(a, b[i]), i - 1), WMulFrom(a, b, i + 1))

WMul(a, b) == WMulFrom(a, b, 1)

\* a modulo 2^bits
WModPow2(a, bits) ==
    [i \in Limbs |->
        IF 15 * i <= bits THEN a[i]
        ELSE IF 15 * (i - 1) < bits THEN a[i] % (2^(bits - 15 * (i - 1)))
        ELSE 0]

RECURSIVE WLessFrom(_, _, _)
WLessFrom(a, b, i) ==
    IF i = 0 THEN FALSE
    ELSE IF a[i] # b[i] THEN a[i] < b[i]
    ELSE WLessFrom(a, b, i - 1)

WLess(a, b) == WLessFrom(a, b, NumLimbs)

\* back to a TLC integer; overflows loudly from 2^31 on
WToInt(a) ==
    IF \A i \in 4..NumLimbs : a[i] = 0
    THEN a[1] + LimbBase * a[2] + (LimbBase * LimbBase) * a[3]
    ELSE (2^30) * (2^30)

\* 4 * 1024 * 1024 * 1024ULL
SWR_MAX_TEXTURE_SIZE == WMul(Wide(4 * 1024), Wide(1024 * 1024))

(***************************************************************************)
(* 32-bit unsigned and 64-bit size_t arithmetic.                            *)
(***************************************************************************)
\* operands below 2^30 (2^15) add (multiply) without leaving TLC's integers
\* and without reaching 2^32, so the limbs are needed for larger ones only
U32Add(a, b) ==
    IF a < 2^30 /\ b < 2^30 THEN a + b
    ELSE WToInt(WModPow2(WAdd(Wide(a), Wide(b)), 32))

U32Mul(a, b) ==
    IF a < 2^15 /\ b < 2^15 THEN a * b
    ELSE WToInt(WModPow2(WMul(Wide(a), Wide(b)), 32))

SizeMul(a, b) == WModPow2(WMul(a, b), 64)

Max(a, b) == IF a >= b THEN a ELSE b

\* the one element of a singleton: in { e(v) : v \in {d} } the value d is
\* computed once, however often e uses v
The(S) == CHOOSE v \in S : TRUE

\* (value + alignment - 1) & ~(alignment - 1); every alignment is a power of two
align(value, alignment) ==
    LET s == U32Add(value, alignment - 1)
    IN  s - (s % alignment)

\* MAX2(1, value >> levels)
u_minify(value, levels) == Max(1, value \div (2^levels))

(***************************************************************************)
(* Pixel formats: util_format_description() and the SWR format info.        *)
(***************************************************************************)
FormatDesc ==
    [ PIPE_FORMAT_R8_UNORM |->
        [blocksize |-> 1, blockwidth |-> 1, blockheight |-> 1,
         depth |-> FALSE, stencil |-> FALSE, compressed |-> FALSE],
      PIPE_FORMAT_R8_UINT |->
        [blocksize |-> 1, blockwidth |-> 1, blockheight |-> 1,
         depth |-> FALSE, stencil |-> FALSE, compressed |-> FALSE],
      PIPE_FORMAT_L8_UNORM |->
        [blocksize |-> 1, blockwidth |-> 1, blockheight |-> 1,
         depth |-> FALSE, stencil |-> FALSE, compressed |-> FALSE],
      PIPE_FORMAT_R8G8B8A8_UNORM |->
        [blocksize |-> 4, blockwidth |-> 1, blockheight |-> 1,
         depth |-> FALSE, stencil |-> FALSE, compressed |-> FALSE],
      PIPE_FORMAT_R32G32B32A32_FLOAT |->
        [blocksize |-> 16, blockwidth |-> 1, blockheight |-> 1,
         depth |-> FALSE, stencil |-> FALSE, compressed |-> FALSE],
      PIPE_FORMAT_DXT1_RGBA |->
        [blocksize |-> 8, blockwidth |-> 4, blockheight |-> 4,
         depth |-> FALSE, stencil |-> FALSE, compressed |-> TRUE],
      PIPE_FORMAT_DXT5_RGBA |->
        [blocksize |-> 16, blockwidth |-> 4, blockheight |-> 4,
         depth |-> FALSE, stencil |-> FALSE, compressed |-> TRUE],
      PIPE_FORMAT_L8A8_UNORM |->
        [blocksize |-> 2, blockwidth |-> 1, blockheight |-> 1,
         depth |-> FALSE, stencil |-> FALSE, compressed |-> FALSE],
      PIPE_FORMAT_L16A16_UNORM |->
        [blocksize |-> 4, blockwidth |-> 1, blockheight |-> 1,
         depth |-> FALSE, stencil |-> FALSE, compressed |-> FALSE],
      PIPE_FORMAT_L32A32_FLOAT |->
        [blocksize |-> 8, blockwidth |-> 1, blockheight |-> 1,
         depth |-> FALSE, stencil |-> FALSE, compressed |-> FALSE],
      PIPE_FORMAT_R32G32B32A32_FIXED |->
        [blocksize |-> 16, blockwidth |-> 1, blockheight |-> 1,
         depth |-> FALSE, stencil |-> FALSE, compressed |-> FALSE],
      PIPE_FORMAT_Z24_UNORM_S8_UINT |->
        [blocksize |-> 4, blockwidth |-> 1, blockheight |-> 1,
         depth |-> TRUE, stencil |-> TRUE, compressed |-> FALSE],
      PIPE_FORMAT_Z32_FLOAT_S8X24_UINT |->
        [blocksize |-> 8, blockwidth |-> 1, blockheight |-> 1,
         depth |-> TRUE, stencil |-> TRUE, compressed |-> FALSE],
      PIPE_FORMAT_S8_UINT |->
        [blocksize |-> 1, blockwidth |-> 1, blockheight |-> 1,
         depth |-> FALSE, stencil |-> TRUE, compressed |-> FALSE] ]

util_format_get_blocksize(fmt) == FormatDesc[fmt].blocksize
util_format_get_blockwidth(fmt) == FormatDesc[fmt].blockwidth
util_format_get_blockheight(fmt) == FormatDesc[fmt].blockheight
util_format_is_compressed(fmt) == FormatDesc[fmt].compressed
util_format_has_depth(fmt) == FormatDesc[fmt].depth
util_format_has_stencil(fmt) == FormatDesc[fmt].stencil

\* (x + blockwidth - 1) / blockwidth
util_format_get_nblocksx(fmt, x) ==
    U32Add(x, util_format_get_blockwidth(fmt) - 1)
        \div util_format_get_blockwidth(fmt)

util_format_get_nblocksy(fmt, y) ==
    U32Add(y, util_format_get_blockheight(fmt) - 1)
        \div util_format_get_blockheight(fmt)

util_format_get_stride(fmt, width) ==
    U32Mul(util_format_get_nblocksx(fmt, width), util_format_get_blocksize(fmt))

\* the live entries of the mesa2swr map; L8 and DXT1 sit in its commented-out
\* block and S8_UINT has no entry: those yield (SWR_FORMAT)-1
mesa_to_swr_format(format) ==
    CASE format = "PIPE_FORMAT_Z24_UNORM_S8_UINT" -> "R24_UNORM_X8_TYPELESS"
      [] format = "PIPE_FORMAT_Z32_FLOAT_S8X24_UINT" -> "R32_FLOAT_X8X24_TYPELESS"
      [] format = "PIPE_FORMAT_R32G32B32A32_FLOAT" -> "R32G32B32A32_FLOAT"
      [] format = "PIPE_FORMAT_R8_UNORM" -> "R8_UNORM"
      [] format = "PIPE_FORMAT_R8G8B8A8_UNORM" -> "R8G8B8A8_UNORM"
      [] format = "PIPE_FORMAT_R8_UINT" -> "R8_UINT"
      [] OTHER -> "SWR_FORMAT_INVALID"

\* SWR_FORMAT_INFO: bytes per block and block dimensions of an SWR format
SwrFormatInfo ==
    [ R8_UNORM |-> [Bpp |-> 1, bcWidth |-> 1, bcHeight |-> 1],
      R8_UINT |-> [Bpp |-> 1, bcWidth |-> 1, bcHeight |-> 1],
      R16_UINT |-> [Bpp |-> 2, bcWidth |-> 1, bcHeight |-> 1],
      R32_UINT |-> [Bpp |-> 4, bcWidth |-> 1, bcHeight |-> 1],
      R8G8B8A8_UNORM |-> [Bpp |-> 4, bcWidth |-> 1, bcHeight |-> 1],
      R24_UNORM_X8_TYPELESS |-> [Bpp |-> 4, bcWidth |-> 1, bcHeight |-> 1],
      R32_FLOAT_X8X24_TYPELESS |-> [Bpp |-> 8, bcWidth |-> 1, bcHeight |-> 1],
      R32G32_UINT |-> [Bpp |-> 8, bcWidth |-> 1, bcHeight |-> 1],
      BC4_UNORM |-> [Bpp |-> 8, bcWidth |-> 4, bcHeight |-> 4],
      BC5_UNORM |-> [Bpp |-> 16, bcWidth |-> 4, bcHeight |-> 4],
      R32G32B32A32_UINT |-> [Bpp |-> 16, bcWidth |-> 1, bcHeight |-> 1],
      R32G32B32A32_FLOAT |-> [Bpp |-> 16, bcWidth |-> 1, bcHeight |-> 1] ]

swr_convert_target_type(target) ==
    CASE target = "PIPE_BUFFER" -> "SURFACE_BUFFER"
      [] target \in {"PIPE_TEXTURE_1D", "PIPE_TEXTURE_1D_ARRAY"} -> "SURFACE_1D"
      [] target \in {"PIPE_TEXTURE_2D", "PIPE_TEXTURE_2D_ARRAY"} -> "SURFACE_2D"
      [] target = "PIPE_TEXTURE_3D" -> "SURFACE_3D"
      [] target \in {"PIPE_TEXTURE_CUBE", "PIPE_TEXTURE_CUBE_ARRAY"} -> "SURFACE_CUBE"

swr_resource_is_texture(pt) == pt.target # "PIPE_BUFFER"

KNOB_MACROTILE_X_DIM == 32
KNOB_MACROTILE_Y_DIM == 32

(***************************************************************************)
(* The templates (struct pipe_resource) the screen is asked about.          *)
(***************************************************************************)
MaxDim == 4
MaxLastLevel == 3
MaxLayers == 2

Levels == 0..MaxLastLevel

Widths == (1..MaxDim) \cup {16, 257}
Heights == (1..MaxDim) \cup {130}

\* format and bind flags as swr_is_format_supported admits them together
FormatBinds ==
    { <<"PIPE_FORMAT_R8_UNORM", {}>>,
      <<"PIPE_FORMAT_R8_UNORM", {"PIPE_BIND_RENDER_TARGET"}>>,
      <<"PIPE_FORMAT_R8G8B8A8_UNORM", {}>>,
      <<"PIPE_FORMAT_R8G8B8A8_UNORM", {"PIPE_BIND_RENDER_TARGET"}>>,
      <<"PIPE_FORMAT_R8G8B8A8_UNORM",
        {"PIPE_BIND_RENDER_TARGET", "PIPE_BIND_DISPLAY_TARGET"}>>,
      <<"PIPE_FORMAT_L8_UNORM", {}>>,
      <<"PIPE_FORMAT_DXT1_RGBA", {}>>,
      <<"PIPE_FORMAT_Z24_UNORM_S8_UINT", {}>>,
      <<"PIPE_FORMAT_Z24_UNORM_S8_UINT", {"PIPE_BIND_DEPTH_STENCIL"}>>,
      <<"PIPE_FORMAT_Z32_FLOAT_S8X24_UINT", {"PIPE_BIND_DEPTH_STENCIL"}>>,
      <<"PIPE_FORMAT_S8_UINT", {"PIPE_BIND_DEPTH_STENCIL"}>> }

Targets2D ==
    { [target |-> "PIPE_TEXTURE_2D", depth0 |-> 1, array_size |-> 1],
      [target |-> "PIPE_TEXTURE_CUBE", depth0 |-> 1, array_size |-> 6] }
    \cup { [target |-> "PIPE_TEXTURE_2D_ARRAY", depth0 |-> 1, array_size |-> n] :
             n \in 1..MaxLayers }
    \cup { [target |-> "PIPE_TEXTURE_3D", depth0 |-> n, array_size |-> 1] :
             n \in 1..MaxLayers }

Targets1D ==
    { [target |-> "PIPE_TEXTURE_1D", depth0 |-> 1, array_size |-> 1] }
    \cup { [target |-> "PIPE_TEXTURE_1D_ARRAY", depth0 |-> 1, array_size |-> n] :
             n \in 1..MaxLayers }

Template(tg, fb, w, h, l) ==
    [target |-> tg.target, format |-> fb[1], bind |-> fb[2],
     width0 |-> w, height0 |-> h, depth0 |-> tg.depth0,
     array_size |-> tg.array_size, last_level |-> l, nr_samples |-> 0]

BufferTarget == [target |-> "PIPE_BUFFER", depth0 |-> 1, array_size |-> 1]

\* descriptors within the sizes the screen advertises
Templates ==
    { Template(tg, fb, w, h, l) :
        tg \in Targets2D, fb \in FormatBinds, w \in Widths, h \in Heights,
        l \in Levels }
    \cup { Template(tg, fb, w, 1, l) :
        tg \in Targets1D, fb \in FormatBinds, w \in Widths, l \in Levels }
    \cup { Template(BufferTarget, <<"PIPE_FORMAT_R8_UNORM", {}>>, w, 1, 0) :
        w \in Widths }

(***************************************************************************)
(* struct swr_resource and SWR_SURFACE_STATE.                               *)
(***************************************************************************)
NoRes == [null |-> TRUE]

\* a zeroed SWR_SURFACE_STATE (memset / CALLOC_STRUCT)
ZeroSurface ==
    [width |-> 0, height |-> 0, depth |-> 0, type |-> "0", tileMode |-> "0",
     format |-> "0", numSamples |-> 0, halign |-> 0, valign |-> 0,
     pitch |-> 0, qpitch |-> 0, pBaseAddress |-> "NULL"]

ZeroOffsets == [l \in Levels |-> 0]

\* a zeroed struct swr_resource whose base is a copy of the template
NewResource(templat) ==
    [null |-> FALSE, base |-> templat, status |-> FALSE,
     has_depth |-> FALSE, has_stencil |-> FALSE,
     swr |-> ZeroSurface, secondary |-> ZeroSurface,
     mip_offsets |-> ZeroOffsets, secondary_mip_offsets |-> ZeroOffsets,
     display_target |-> "NULL"]

(***************************************************************************)
(* ComputeSurfaceOffset<false>(0, 0, 0, 0, 0, level, pState): the byte      *)
(* offset of a mip level inside one array slice.                            *)
(***************************************************************************)
RECURSIVE SumAligned(_, _, _, _)
\* sum over levels from..to of align(u_minify(base, level), alignment), modulo 2^32
SumAligned(base, alignment, from, to) ==
    IF from > to THEN 0
    ELSE U32Add(align(u_minify(base, from), alignment),
                SumAligned(base, alignment, from + 1, to))

ComputeSurfaceOffset(level, pState) ==
    LET info == SwrFormatInfo[pState.format]
        hAlign == pState.halign * info.bcWidth
        vAlign == pState.valign * info.bcHeight
        x == IF pState.type = "SURFACE_1D"
             THEN SumAligned(pState.width, hAlign, 0, level - 1)
             ELSE align(pState.width, hAlign)
        y == IF pState.type = "SURFACE_1D" \/ level < 2
             THEN 0
             ELSE SumAligned(pState.height, vAlign, 1, level - 1)
    IN  IF level = 0 THEN 0
        ELSE U32Add(U32Mul(y \div info.bcHeight, pState.pitch),
                    U32Mul(x \div info.bcWidth, info.Bpp))

(***************************************************************************)
(* swr_texture_layout, step by step.                                        *)
(***************************************************************************)
\* a stencil-only format is laid out as R8_UINT
LayoutFormat(pt) ==
    IF util_format_has_stencil(pt.format) /\ ~util_format_has_depth(pt.format)
    THEN "PIPE_FORMAT_R8_UINT"
    ELSE pt.format

IsMacrotiled(pt) ==
    pt.bind \cap {"PIPE_BIND_RENDER_TARGET", "PIPE_BIND_DEPTH_STENCIL"} # {}

LayoutHalign(pt) == IF IsMacrotiled(pt) THEN KNOB_MACROTILE_X_DIM ELSE 1
LayoutValign(pt) == IF IsMacrotiled(pt) THEN KNOB_MACROTILE_Y_DIM ELSE 1

Is1D(pt) == pt.target \in {"PIPE_TEXTURE_1D", "PIPE_TEXTURE_1D_ARRAY"}

\* LayoutWidth without the widening to level 1 + level 2
LayoutWidthLevel0Only(pt, fmt, halign) ==
    LET width == align(pt.width0, halign)
    IN  IF Is1D(pt)
        THEN U32Add(width, SumAligned(pt.width0, halign, 1, pt.last_level))
        ELSE width

\* LayoutWidth widening whatever the number of levels
LayoutWidthAlwaysWidened(pt, fmt, halign) ==
    LET width == align(pt.width0, halign)
    IN  IF Is1D(pt)
        THEN U32Add(width, SumAligned(pt.width0, halign, 1, pt.last_level))
        ELSE Max(width,
                 U32Add(align(u_minify(pt.width0, 1), halign),
                        align(u_minify(pt.width0, 2), halign)))

\* the overall width in pixels
LayoutWidth(pt, fmt, halign) ==
    LET width == align(pt.width0, halign)
    IN  IF Is1D(pt)
        THEN U32Add(width, SumAligned(pt.width0, halign, 1, pt.last_level))
        ELSE IF pt.last_level > 1
             THEN Max(width,
                      U32Add(align(u_minify(pt.width0, 1), halign),
                             align(u_minify(pt.width0, 2), halign)))
             ELSE width

\* LayoutPitch taking the 2D stride for every target
LayoutPitchAlwaysStride(pt, fmt, width) ==
    util_format_get_stride(fmt, width)

LayoutPitch(pt, fmt, width) ==
    IF Is1D(pt)
    THEN util_format_get_blocksize(fmt)
    ELSE util_format_get_stride(fmt, width)

\* LayoutHeight stacking level 1 on top of the later levels
LayoutHeightStacked(pt, valign) ==
    U32Add(align(pt.height0, valign),
           SumAligned(pt.height0, valign, 1, pt.last_level))

\* the overall height in rows (2D and 3D layout only)
LayoutHeight(pt, valign) ==
    LET height == align(pt.height0, valign)
    IN  IF pt.last_level = 1
        THEN U32Add(height, align(u_minify(pt.height0, 1), valign))
        ELSE IF pt.last_level > 1
             THEN LET level1 == align(u_minify(pt.height0, 1), valign)
                      level2 == SumAligned(pt.height0, valign, 2, pt.last_level)
                  IN  U32Add(height, Max(level1, level2))
             ELSE height

LayoutQpitch(pt, fmt, width, valign) ==
    IF Is1D(pt)
    THEN util_format_get_nblocksx(fmt, width)
    ELSE util_format_get_nblocksy(fmt, LayoutHeight(pt, valign))

LayoutDepth(pt) ==
    IF pt.target = "PIPE_TEXTURE_3D" THEN pt.depth0 ELSE pt.array_size

\* FixupFormat substituting whether or not the format is native
FixupFormatAlways(format, fmt) ==
    CASE util_format_get_blocksize(fmt) = 1 -> "R8_UINT"
      [] util_format_get_blocksize(fmt) = 2 -> "R16_UINT"
      [] util_format_get_blocksize(fmt) = 4 -> "R32_UINT"
      [] util_format_get_blocksize(fmt) = 8 ->
           IF util_format_is_compressed(fmt) THEN "BC4_UNORM" ELSE "R32G32_UINT"
      [] util_format_get_blocksize(fmt) = 16 ->
           IF util_format_is_compressed(fmt) THEN "BC5_UNORM"
           ELSE "R32G32B32A32_UINT"

\* fix up the swr format so that the LOD offset computation works
FixupFormat(format, fmt) ==
    IF format # "SWR_FORMAT_INVALID" THEN format
    ELSE CASE util_format_get_blocksize(fmt) = 1 -> "R8_UINT"
           [] util_format_get_blocksize(fmt) = 2 -> "R16_UINT"
           [] util_format_get_blocksize(fmt) = 4 -> "R32_UINT"
           [] util_format_get_blocksize(fmt) = 8 ->
                IF util_format_is_compressed(fmt) THEN "BC4_UNORM" ELSE "R32G32_UINT"
           [] util_format_get_blocksize(fmt) = 16 ->
                IF util_format_is_compressed(fmt) THEN "BC5_UNORM"
                ELSE "R32G32B32A32_UINT"

\* res->swr once the layout has filled it (pBaseAddress is left as it was)
LayoutSurface(r) ==
    LET pt == r.base
        fmt == LayoutFormat(pt)
        halign == LayoutHalign(pt) * util_format_get_blockwidth(fmt)
        valign == LayoutValign(pt) * util_format_get_blockheight(fmt)
        width == LayoutWidth(pt, fmt, halign)
    IN  [r.swr EXCEPT
            !.width = pt.width0,
            !.height = pt.height0,
            !.type = swr_convert_target_type(pt.target),
            !.tileMode = "SWR_TILE_NONE",
            !.format = FixupFormat(mesa_to_swr_format(fmt), fmt),
            !.numSamples = Max(1, pt.nr_samples),
            !.halign = LayoutHalign(pt),
            !.valign = LayoutValign(pt),
            !.pitch = LayoutPitch(pt, fmt, width),
            !.qpitch = LayoutQpitch(pt, fmt, width, valign),
            !.depth = LayoutDepth(pt)]

\* LayoutOffsets with the loop stopping one level early
LayoutOffsetsShort(old, last_level, pState) ==
    [l \in Levels |->
        IF l < last_level THEN ComputeSurfaceOffset(l, pState) ELSE old[l]]

\* LayoutOffsets adding to the array instead of assigning it
LayoutOffsetsAccumulated(old, last_level, pState) ==
    [l \in Levels |->
        IF l <= last_level
        THEN U32Add(old[l], ComputeSurfaceOffset(l, pState))
        ELSE old[l]]

\* the mip_offsets array after the loop over levels 0..last_level
LayoutOffsets(old, last_level, pState) ==
    [l \in Levels |->
        IF l <= last_level THEN ComputeSurfaceOffset(l, pState) ELSE old[l]]

\* size_t total_size = (size_t)depth * qpitch * pitch
TotalSize(s) == SizeMul(SizeMul(Wide(s.depth), Wide(s.qpitch)), Wide(s.pitch))

\* SizeExceeded rejecting the limit itself
SizeExceededAtLimit(total_size) == ~WLess(total_size, SWR_MAX_TEXTURE_SIZE)

SizeExceeded(total_size) == WLess(SWR_MAX_TEXTURE_SIZE, total_size)

\* SecondarySurface keeping the pitch of the primary surface
SecondarySurfaceSamePitch(swr, fmt, addr) ==
    [swr EXCEPT !.format = "R8_UINT", !.pBaseAddress = addr]

\* res->secondary: a copy of res->swr with format R8_UINT and the pitch scaled
SecondarySurface(swr, fmt, addr) ==
    [swr EXCEPT
        !.format = "R8_UINT",
        !.pitch = swr.pitch \div util_format_get_blocksize(fmt),
        !.pBaseAddress = addr]

\* the argument of the second AlignedMalloc: a product of three uint32_t
SecondarySize(s) == Wide(U32Mul(U32Mul(s.depth, s.qpitch), s.pitch))

\* AlignedMalloc(size, 64): the block, or NULL when the heap is exhausted
AlignedMalloc(block, succeeds) == IF succeeds THEN block ELSE "NULL"

Block(name, size) == [block |-> name, size |-> size]

\* swr_texture_layout up to the size check: the derived fields of the resource
LayoutCompute(r) ==
    The({ [r EXCEPT
             !.has_depth = util_format_has_depth(r.base.format),
             !.has_stencil = util_format_has_stencil(r.base.format),
             !.swr = swr,
             !.mip_offsets =
                 LayoutOffsets(r.mip_offsets, r.base.last_level, swr)]
          : swr \in {LayoutSurface(r)} })

\* the "if (allocate)" block, run on the computed resource r1; malloc1 and
\* malloc2 tell whether its first and second AlignedMalloc find memory
LayoutAllocate(r1, malloc1, malloc2) ==
    LET total_size == TotalSize(r1.swr)
        primary == AlignedMalloc("primary", malloc1)
        swr == [r1.swr EXCEPT !.pBaseAddress = primary]
        got1 == IF primary = "NULL" THEN {} ELSE {Block("primary", total_size)}
        addr2 == AlignedMalloc("secondary", malloc2)
        sec == SecondarySurface(swr, LayoutFormat(r1.base), addr2)
        got2 == IF addr2 = "NULL" THEN {}
                ELSE {Block("secondary", SecondarySize(sec))}
    IN  IF r1.has_depth /\ r1.has_stencil
        THEN [res |-> [r1 EXCEPT
                         !.swr = swr,
                         !.secondary = sec,
                         !.secondary_mip_offsets =
                             LayoutOffsets(r1.secondary_mip_offsets,
                                           r1.base.last_level, sec)],
              allocated |-> got1 \cup got2]
        ELSE [res |-> [r1 EXCEPT !.swr = swr], allocated |-> got1]

\* swr_texture_layout allocating before it checks the size
swr_texture_layout_alloc_first(r, allocate, malloc1, malloc2) ==
    The({ IF SizeExceeded(TotalSize(r1.swr))
          THEN [ok |-> FALSE, res |-> r1,
                allocated |-> IF allocate
                              THEN LayoutAllocate(r1, malloc1, malloc2).allocated
                              ELSE {}]
          ELSE IF allocate
          THEN The({ [ok |-> TRUE, res |-> a.res, allocated |-> a.allocated]
                     : a \in {LayoutAllocate(r1, malloc1, malloc2)} })
          ELSE [ok |-> TRUE, res |-> r1, allocated |-> {}]
          : r1 \in {LayoutCompute(r)} })

\* swr_texture_layout(screen, res, allocate).  Yields the verdict, the resource
\* as the call leaves it and the heap blocks the call allocated.
swr_texture_layout(r, allocate, malloc1, malloc2) ==
    The({ IF SizeExceeded(TotalSize(r1.swr))
          THEN [ok |-> FALSE, res |-> r1, allocated |-> {}]
          ELSE IF allocate
          THEN The({ [ok |-> TRUE, res |-> a.res, allocated |-> a.allocated]
                     : a \in {LayoutAllocate(r1, malloc1, malloc2)} })
          ELSE [ok |-> TRUE, res |-> r1, allocated |-> {}]
          : r1 \in {LayoutCompute(r)} })

(***************************************************************************)
(* swr_displaytarget_layout: the window system supplies the memory.         *)
(* winsys is what displaytarget_create / displaytarget_map do: "FAIL" (no   *)
(* display target), "NOMAP" (a display target that cannot be mapped), "OK". *)
(***************************************************************************)
WinsysOutcomes == {"OK", "NOMAP", "FAIL"}

swr_displaytarget_layout(r, winsys) ==
    IF winsys = "FAIL"
    THEN [ok |-> FALSE, res |-> r, allocated |-> {}]
    ELSE [ok |-> TRUE,
          res |-> [r EXCEPT
                     !.display_target = "dt",
                     !.swr.pBaseAddress =
                         IF winsys = "OK" THEN "dt_map" ELSE "NULL"],
          \* the window system sizes its own buffer
          allocated |-> {Block("display_target", Wide(0))}]

IsDisplayable(pt) ==
    pt.bind \cap {"PIPE_BIND_DISPLAY_TARGET", "PIPE_BIND_SCANOUT",
                  "PIPE_BIND_SHARED"} # {}

(***************************************************************************)
(* swr_can_create_resource and swr_resource_create.                         *)
(***************************************************************************)
swr_can_create_resource(templat) ==
    swr_texture_layout(NewResource(templat), FALSE, FALSE, FALSE)

\* What the collaborators of one swr_resource_create call answer: CALLOC_STRUCT
\* and the two AlignedMalloc calls (TRUE: memory found) and the window system.
Faults ==
    [calloc : BOOLEAN, malloc1 : BOOLEAN, malloc2 : BOOLEAN,
     winsys : WinsysOutcomes]

NoFaults == [calloc |-> TRUE, malloc1 |-> TRUE, malloc2 |-> TRUE, winsys |-> "OK"]

IsDepthStencil(pt) ==
    util_format_has_depth(pt.format) /\ util_format_has_stencil(pt.format)

\* The answer of a collaborator that the call never reaches for this template
\* is pinned to the good one, so that each run of the call is listed once.
Reaches(templat, f) ==
    LET displayable == swr_resource_is_texture(templat) /\ IsDisplayable(templat)
    IN  /\ ~f.calloc => (f.malloc1 /\ f.malloc2 /\ f.winsys = "OK")
        /\ displayable => (f.malloc1 /\ f.malloc2)
        /\ ~displayable => f.winsys = "OK"
        /\ ~IsDepthStencil(templat) => f.malloc2

\* swr_resource_create laying out a displayable texture with allocate = true
swr_resource_create_alloc_display(templat, f) ==
    LET self == {Block("swr_resource", Wide(0))}
    IN  IF ~f.calloc
        THEN [res |-> NoRes, allocated |-> {}]
        ELSE The({
          IF swr_resource_is_texture(templat) /\ IsDisplayable(templat)
          THEN The({ IF dt.ok
                     THEN [res |-> dt.res,
                           allocated |-> self \cup lay.allocated
                                              \cup dt.allocated]
                     ELSE [res |-> NoRes,
                           allocated |-> lay.allocated \cup dt.allocated]
                     : dt \in {swr_displaytarget_layout(lay.res, f.winsys)} })
          ELSE IF lay.ok
               THEN [res |-> lay.res, allocated |-> self \cup lay.allocated]
               ELSE [res |-> NoRes, allocated |-> lay.allocated]
          : lay \in {swr_texture_layout(NewResource(templat), TRUE,
                                        f.malloc1, f.malloc2)} })

\* Yields the resource returned (NoRes for NULL) and the blocks the call
\* leaves allocated.
swr_resource_create(templat, f) ==
    LET self == {Block("swr_resource", Wide(0))}
        displayable == swr_resource_is_texture(templat) /\ IsDisplayable(templat)
    IN  IF ~f.calloc
        THEN [res |-> NoRes, allocated |-> {}]
        ELSE The({
          IF displayable
          THEN \* the verdict of this layout is not looked at
               The({ IF dt.ok
                     THEN [res |-> dt.res,
                           allocated |-> self \cup lay.allocated
                                              \cup dt.allocated]
                     ELSE [res |-> NoRes,
                           allocated |-> lay.allocated \cup dt.allocated]
                     : dt \in {swr_displaytarget_layout(lay.res, f.winsys)} })
          ELSE IF lay.ok
               THEN [res |-> lay.res, allocated |-> self \cup lay.allocated]
               ELSE [res |-> NoRes, allocated |-> lay.allocated]
          : lay \in {swr_texture_layout(NewResource(templat), ~displayable,
                                        f.malloc1, f.malloc2)} })

\* ret: the call, its verdict, what its collaborators answered, and whether it
\* ran the layout on a resource whose derived fields were already filled
NoCall == [op |-> "none", ok |-> FALSE, faults |-> NoFaults, again |-> FALSE]

(***************************************************************************)
(* The screen as a state machine over one template.                         *)
(***************************************************************************)
(***************************************************************************)
(* The Android EGL platform at rest: no surface, every buffer with the      *)
(* native window, the display mutex free.                                   *)
(***************************************************************************)
MaxBuffers == 2
Buffers == 1..MaxBuffers

\* dri2_surf before droid_create_surface and after free(dri2_surf)
NoSurface ==
    [alive |-> FALSE, type |-> "none", buffer |-> 0, Width |-> 0,
     dri_image_back |-> FALSE, dri_image_front |-> FALSE,
     local_buffers |-> FALSE]

\* out: the buffers dequeued and not yet queued back; refs: incRef minus
\* decRef of each buffer; misuse: a buffer was queued that was not out
NewWindow ==
    [out |-> {}, refs |-> [b \in Buffers |-> 0], window_refs |-> 0,
     misuse |-> FALSE]

Idle == [op |-> "none", at |-> "idle"]

NoResult == [op |-> "none", result |-> 0, mask |-> {}, image_mask |-> {},
             front |-> FALSE, back |-> FALSE]
NoThreads == [mutex |-> "free", pc |-> Idle, other |-> "idle", last |-> NoResult]

\* a screen without a context, its flush fence not pending
\* the display before eglInitialize: DriverData is NULL, nothing allocated
NoInit == [software |-> FALSE, drm_gralloc |-> FALSE, gralloc |-> FALSE,
           drm |-> "none", swrast |-> "none"]
NoDisplay == [DriverData |-> 0, live |-> {}, freed |-> {}, vtbl |-> "none",
              result |-> FALSE, tried |-> <<>>, call |-> NoInit]

\* the blitter before any blit: an empty batch, BCS_SWCTRL in its default
\* state (neither source nor destination Y-tiled) at the last batch boundary
NoTiling == [dst_y |-> FALSE, src_y |-> FALSE]
NoBlits == [call |-> [op |-> "none"], ok |-> FALSE, emitted |-> <<>>,
            batch |-> <<>>, used |-> 0, hw |-> NoTiling, asserts |-> TRUE,
            done |-> TRUE]

NewScreen == [pipe |-> FALSE, fence_pending |-> FALSE]

InitScreen ==
    /\ res = NoRes
    /\ heap = {}
    /\ ret = NoCall
    /\ screen = NewScreen
    /\ log = <<>>
    /\ surf = NoSurface
    /\ win = NewWindow
    /\ egl = NoThreads
    /\ dpy = NoDisplay /\ blt = NoBlits

Init ==
    /\ templ \in Templates
    /\ InitScreen

CanCreateResource ==
    \E r \in {swr_can_create_resource(templ)} :
        /\ ret' = [op |-> "swr_can_create_resource", ok |-> r.ok,
                   faults |-> NoFaults, again |-> FALSE]
        /\ heap' = heap \cup r.allocated
        /\ UNCHANGED <<templ, res, screen, log>>
        /\ UNCHANGED <<droidVars, dpy, blt>>

ResourceCreate ==
    /\ res = NoRes
    /\ \E f \in Faults :
         /\ Reaches(templ, f)
         /\ \E r \in {swr_resource_create(templ, f)} :
                /\ res' = r.res
                /\ heap' = heap \cup r.allocated
                /\ ret' = [op |-> "swr_resource_create", ok |-> r.res # NoRes,
                           faults |-> f, again |-> FALSE]
    /\ UNCHANGED <<templ, screen, log>>
    /\ UNCHANGED <<droidVars, dpy, blt>>

Next == CanCreateResource \/ ResourceCreate

Spec == Init /\ [][Next]_vars

(***************************************************************************)
(* The same screen asked about large descriptors: sizes around the 4 GiB    *)
(* limit and widths whose 32-bit stride wraps.                              *)
(***************************************************************************)
LargeWidths == {8192, 32768, 2^20, 2^30, 6700417}
LargeHeights == {1, 8192}
LargeLayers == {1, 4, 5, 641, 4096}

LargeFormatBinds ==
    { <<"PIPE_FORMAT_R8_UNORM", {}>>,
      <<"PIPE_FORMAT_R8G8B8A8_UNORM", {}>>,
      <<"PIPE_FORMAT_R8G8B8A8_UNORM",
        {"PIPE_BIND_RENDER_TARGET", "PIPE_BIND_DISPLAY_TARGET"}>>,
      <<"PIPE_FORMAT_R32G32B32A32_FLOAT", {}>>,
      <<"PIPE_FORMAT_Z24_UNORM_S8_UINT", {"PIPE_BIND_DEPTH_STENCIL"}>> }

LargeTemplates ==
    { Template([target |-> "PIPE_TEXTURE_2D_ARRAY", depth0 |-> 1,
                array_size |-> n], fb, w, h, l) :
        n \in LargeLayers, fb \in LargeFormatBinds, w \in LargeWidths,
        h \in LargeHeights, l \in 0..1 }
    \cup { Template([target |-> "PIPE_TEXTURE_1D_ARRAY", depth0 |-> 1,
                     array_size |-> n], fb, w, 1, 0) :
        n \in LargeLayers, fb \in LargeFormatBinds, w \in LargeWidths }
    \cup { Template(BufferTarget, <<"PIPE_FORMAT_R8_UNORM", {}>>, w, 1, 0) :
        w \in LargeWidths }

InitLarge ==
    /\ templ \in LargeTemplates
    /\ InitScreen

SpecLarge == InitLarge /\ [][Next]_vars

(***************************************************************************)
(* The same screen asked about every pixel format of the model, native to   *)
(* the rasterizer or not, at a few small sizes.                             *)
(***************************************************************************)
FormatTemplates ==
    { Template(tg, <<f, {}>>, w, 1, l) :
        tg \in { [target |-> "PIPE_TEXTURE_2D", depth0 |-> 1, array_size |-> 1],
                 [target |-> "PIPE_TEXTURE_1D", depth0 |-> 1, array_size |-> 1] },
        f \in DOMAIN FormatDesc, w \in {1, MaxDim}, l \in {0, MaxLastLevel} }

InitFormats ==
    /\ templ \in FormatTemplates
    /\ InitScreen

SpecFormats == InitFormats /\ [][Next]_vars

(***************************************************************************)
(* swr_texture_layout run repeatedly on one resource.                       *)
(***************************************************************************)
\* the widest descriptors and a spread of heights
LayoutTemplates ==
    { t \in Templates :
        t.width0 >= MaxDim /\ t.height0 \in {1, MaxDim, 130} }

InitLayout ==
    /\ templ \in LayoutTemplates
    /\ res = NewResource(templ)
    /\ heap = {}
    /\ ret = NoCall
    /\ screen = NewScreen
    /\ log = <<>>
    /\ surf = NoSurface
    /\ win = NewWindow
    /\ egl = NoThreads
    /\ dpy = NoDisplay /\ blt = NoBlits

TextureLayout ==
    \E allocate \in BOOLEAN, f \in Faults :
        /\ f.calloc /\ f.winsys = "OK"
        /\ ~allocate => (f.malloc1 /\ f.malloc2)
        /\ ~IsDepthStencil(templ) => f.malloc2
        /\ \E r \in {swr_texture_layout(res, allocate, f.malloc1, f.malloc2)} :
               /\ res' = r.res
               /\ heap' = heap \cup r.allocated
               /\ ret' = [op |-> "swr_texture_layout", ok |-> r.ok,
                          faults |-> f, again |-> res.swr.type # "0"]
        /\ UNCHANGED <<templ, screen, log>>
        /\ UNCHANGED <<droidVars, dpy, blt>>

NextLayout == TextureLayout

SpecLayout == InitLayout /\ [][NextLayout]_vars

(***************************************************************************)
(* The layout the comment of swr_texture_layout draws: level 0 at the top   *)
(* left, level 1 below it at x = 0, levels 2..N to the right of level 1,    *)
(* stacked downwards from level 1's top row.  Pixel units.                  *)
(***************************************************************************)
BlockW(r) == util_format_get_blockwidth(LayoutFormat(r.base))
BlockH(r) == util_format_get_blockheight(LayoutFormat(r.base))
BlockSize(r) == util_format_get_blocksize(LayoutFormat(r.base))

\* a level's footprint: its minified size aligned to halign and valign
LevelWidth(r, L) == align(u_minify(r.swr.width, L), r.swr.halign * BlockW(r))
LevelHeight(r, L) == align(u_minify(r.swr.height, L), r.swr.valign * BlockH(r))

DiagramX(r, L) == IF L < 2 THEN 0 ELSE LevelWidth(r, 1)

DiagramY(r, L) ==
    IF L = 0 THEN 0
    ELSE LevelHeight(r, 0)
         + SumAligned(r.swr.height, r.swr.valign * BlockH(r), 2, L - 1)

\* the slice: pitch bytes wide, qpitch block rows high
SliceWidth(r) == (r.swr.pitch \div BlockSize(r)) * BlockW(r)
SliceHeight(r) == r.swr.qpitch * BlockH(r)

\* y * pitch + x * bytesPerBlock, in block units
DiagramOffset(r, L) ==
    (DiagramY(r, L) \div BlockH(r)) * r.swr.pitch
    + (DiagramX(r, L) \div BlockW(r)) * BlockSize(r)

LevelsOf(r) == 0..r.base.last_level

Laid2D == ~res.null /\ ~Is1D(res.base)

(***************************************************************************)
(* C1: for every non-1D descriptor, with the levels placed as the layout    *)
(* diagram draws them, every level's aligned footprint lies inside the      *)
(* pitch-wide, qpitch-high slice and no two footprints overlap.             *)
(***************************************************************************)
C1_LevelsInsideSlice ==
    Laid2D =>
        \A L \in LevelsOf(res) :
            /\ DiagramX(res, L) + LevelWidth(res, L) <= SliceWidth(res)
            /\ DiagramY(res, L) + LevelHeight(res, L) <= SliceHeight(res)
            /\ \A M \in 0..(L - 1) :
                 \/ DiagramX(res, M) + LevelWidth(res, M) <= DiagramX(res, L)
                 \/ DiagramX(res, L) + LevelWidth(res, L) <= DiagramX(res, M)
                 \/ DiagramY(res, M) + LevelHeight(res, M) <= DiagramY(res, L)
                 \/ DiagramY(res, L) + LevelHeight(res, L) <= DiagramY(res, M)

\* a macrotiled chain whose levels 1 and 2 side by side are wider than level 0
C1_Witness ==
    /\ Laid2D
    /\ res.base.last_level = MaxLastLevel
    /\ res.swr.halign = KNOB_MACROTILE_X_DIM
    /\ SliceWidth(res) > LevelWidth(res, 0)
    /\ SliceWidth(res) = LevelWidth(res, 1) + LevelWidth(res, 2)

(***************************************************************************)
(* C2: the per-level offsets start at 0 for level 0 and, in the 2D/3D       *)
(* staircase, grow strictly from each level to the next.                    *)
(***************************************************************************)
C2_OffsetsIncrease ==
    ~res.null =>
        /\ res.mip_offsets[0] = 0
        /\ ~Is1D(res.base) =>
             \A L \in 0..(res.base.last_level - 1) :
                 res.mip_offsets[L] < res.mip_offsets[L + 1]

C2_Witness ==
    /\ Laid2D
    /\ res.base.last_level = MaxLastLevel
    /\ res.mip_offsets[0] = 0
    /\ res.mip_offsets[MaxLastLevel - 1] < res.mip_offsets[MaxLastLevel]

ComputedTotalSize(pt) == TotalSize(LayoutSurface(NewResource(pt)))

\* depth * qpitch * pitch over the naturals.  Every enumerated width0 and
\* height0 is at most 2^30, so the aligned widths, heights and their sums stay
\* below 2^32 as the code computes them; only the stride (blocks times bytes
\* per block) and the size product can leave the 32 and 64 bits of the code.
ExactTotalSize(pt) ==
    LET fmt == LayoutFormat(pt)
        halign == LayoutHalign(pt) * util_format_get_blockwidth(fmt)
        valign == LayoutValign(pt) * util_format_get_blockheight(fmt)
        width == LayoutWidth(pt, fmt, halign)
        pitch == IF Is1D(pt)
                 THEN Wide(util_format_get_blocksize(fmt))
                 ELSE WMul(Wide(util_format_get_nblocksx(fmt, width)),
                           Wide(util_format_get_blocksize(fmt)))
        qpitch == LayoutQpitch(pt, fmt, width, valign)
    IN  WMul(WMul(Wide(LayoutDepth(pt)), Wide(qpitch)), pitch)

OwnsMemory(pt) == ~(swr_resource_is_texture(pt) /\ IsDisplayable(pt))

Backing(h) == { b \in h : b.block \in {"primary", "secondary"} }

(***************************************************************************)
(* C4, as claimed: whenever the computed total size of the template exceeds *)
(* 4 GiB, swr_resource_create returns NULL on every creation path and       *)
(* swr_can_create_resource returns false.                                   *)
(***************************************************************************)
C4_OversizeNeverCreated ==
    ( /\ ret.op \in {"swr_resource_create", "swr_can_create_resource"}
      /\ SizeExceeded(ComputedTotalSize(templ)) )
    => ~ret.ok

(***************************************************************************)
(* C5: the layout fails exactly when the computed total size is strictly    *)
(* greater than 4 GiB; a total of exactly 4 GiB is accepted.                *)
(***************************************************************************)
C5_FailsIffOverLimit ==
    LET total == ComputedTotalSize(templ)
        over == WLess(SWR_MAX_TEXTURE_SIZE, total)
    IN  /\ ret.op = "swr_can_create_resource" => (ret.ok <=> ~over)
        /\ ( /\ ret.op = "swr_resource_create"
             /\ ret.faults.calloc
             /\ OwnsMemory(templ) )
           => (ret.ok <=> ~over)

\* a resource of exactly 4 GiB was created
C5_Witness ==
    /\ ret.op = "swr_resource_create"
    /\ ret.ok
    /\ OwnsMemory(templ)
    /\ TotalSize(res.swr) = SWR_MAX_TEXTURE_SIZE

(***************************************************************************)
(* C6, as claimed: whenever the exact total size of the template exceeds    *)
(* 4 GiB the layout reports failure, wrap-around or not.                    *)
(***************************************************************************)
C6_ExactOversizeRejected ==
    ( /\ ret.op = "swr_can_create_resource"
      /\ WLess(SWR_MAX_TEXTURE_SIZE, ExactTotalSize(templ)) )
    => ~ret.ok

(***************************************************************************)
(* C7: a layout that fails on the size allocates no backing memory, and     *)
(* swr_can_create_resource never allocates and never changes the template.  *)
(***************************************************************************)
C7_NoAllocationOnFailure ==
    [][ /\ CanCreateResource =>
            (heap' = heap /\ templ' = templ /\ res' = res)
        /\ (ResourceCreate /\ SizeExceeded(ComputedTotalSize(templ))) =>
            (Backing(heap') = Backing(heap) /\ templ' = templ) ]_vars

\* swr_resource_create failed on the size alone and left the heap empty
C7_Witness ==
    /\ ret.op = "swr_resource_create"
    /\ ~ret.ok
    /\ ret.faults = NoFaults
    /\ OwnsMemory(templ)
    /\ SizeExceeded(ComputedTotalSize(templ))
    /\ heap = {}

(***************************************************************************)
(* C8, as claimed: when an AlignedMalloc of swr_resource_create's layout    *)
(* fails, no resource is returned and nothing stays allocated.              *)
(***************************************************************************)
C8_AllocationFailureFailsCreate ==
    ( /\ ret.op = "swr_resource_create"
      /\ ret.faults.calloc
      /\ OwnsMemory(templ)
      /\ ~SizeExceeded(ComputedTotalSize(templ))
      /\ (~ret.faults.malloc1 \/ ~ret.faults.malloc2) )
    => (~ret.ok /\ res.null /\ heap = {})

(***************************************************************************)
(* C9: a second run of swr_texture_layout on a resource the first run has   *)
(* filled yields the same derived fields, offsets and verdict.              *)
(***************************************************************************)
Derived(r) ==
    [swr |-> [r.swr EXCEPT !.pBaseAddress = "NULL"],
     has_depth |-> r.has_depth, has_stencil |-> r.has_stencil,
     mip_offsets |-> r.mip_offsets]

C9_LayoutIdempotent ==
    [][ ret.op = "swr_texture_layout" =>
          (Derived(res') = Derived(res) /\ ret'.ok = ret.ok) ]_vars

C9_Witness ==
    /\ ret.op = "swr_texture_layout"
    /\ ret.again
    /\ ret.ok
    /\ res.base.last_level = MaxLastLevel
    /\ res.mip_offsets[MaxLastLevel] > 0

(***************************************************************************)
(* C10, as claimed: with a single mip level, whatever the dimensionality,   *)
(* pitch is the byte stride of align(width0, halign * blockWidth) and       *)
(* qpitch the block rows of align(height0, valign * blockHeight).           *)
(***************************************************************************)
SingleLevel2DLayout(r) ==
    /\ r.swr.pitch =
         util_format_get_stride(LayoutFormat(r.base),
                                align(r.base.width0, r.swr.halign * BlockW(r)))
    /\ r.swr.qpitch =
         util_format_get_nblocksy(LayoutFormat(r.base),
                                  align(r.base.height0, r.swr.valign * BlockH(r)))

C10_SingleLevelAnyDimension ==
    (~res.null /\ res.base.last_level = 0) => SingleLevel2DLayout(res)

(***************************************************************************)
(* C10, amended: with a single mip level and a target that is not 1D or     *)
(* 1D-array, pitch is the byte stride of align(width0, halign * blockWidth) *)
(* and qpitch the block rows of align(height0, valign * blockHeight), so    *)
(* 257 x 130 at halign = valign = 32 gives 288 blocks per row and qpitch    *)
(* 160; a 1D or 1D-array target has pitch = bytes per block and qpitch =    *)
(* the blocks of align(width0, halign * blockWidth).                        *)
(***************************************************************************)
C10_SingleLevel ==
    (~res.null /\ res.base.last_level = 0) =>
        /\ ~Is1D(res.base) => SingleLevel2DLayout(res)
        /\ Is1D(res.base) =>
             /\ res.swr.pitch = BlockSize(res)
             /\ res.swr.qpitch =
                  util_format_get_nblocksx(
                      LayoutFormat(res.base),
                      align(res.base.width0, res.swr.halign * BlockW(res)))
        /\ ( /\ ~Is1D(res.base)
             /\ res.base.width0 = 257 /\ res.base.height0 = 130
             /\ res.swr.halign = 32 /\ res.swr.valign = 32 )
           => (res.swr.pitch = 288 * BlockSize(res) /\ res.swr.qpitch = 160)

C10_Witness ==
    /\ Laid2D
    /\ res.base.last_level = 0
    /\ res.base.width0 = 257 /\ res.base.height0 = 130
    /\ res.swr.halign = 32 /\ res.swr.valign = 32
    /\ res.swr.pitch = 288 * 4
    /\ res.swr.qpitch = 160

(***************************************************************************)
(* The effective alignments of a laid-out resource, in pixels.              *)
(***************************************************************************)
EffHalign(r) == r.swr.halign * BlockW(r)
EffValign(r) == r.swr.valign * BlockH(r)

(***************************************************************************)
(* C11: for a non-1D descriptor the pitch is the stride of align(width0,    *)
(* halign), widened to align(minify(width0,1)) + align(minify(width0,2))    *)
(* when that is larger and there are more than 2 levels; with 1 or 2 levels *)
(* nothing is widened.  Width 16 with 5 levels at halign 1 keeps 16.        *)
(***************************************************************************)
C11_PitchWidth ==
    /\ Laid2D =>
         LET h == EffHalign(res)
             w0 == align(res.base.width0, h)
             w12 == align(u_minify(res.base.width0, 1), h)
                    + align(u_minify(res.base.width0, 2), h)
             levels == res.base.last_level + 1
         IN  /\ res.swr.pitch =
                  util_format_get_stride(
                      LayoutFormat(res.base),
                      IF levels > 2 /\ w12 > w0 THEN w12 ELSE w0)
             /\ (res.base.width0 = 16 /\ h = 1 /\ levels > 2)
                  => SliceWidth(res) = 16
    /\ LayoutSurface(NewResource(
           Template([target |-> "PIPE_TEXTURE_2D", depth0 |-> 1, array_size |-> 1],
                    <<"PIPE_FORMAT_R8G8B8A8_UNORM", {}>>, 16, 16, 4))).pitch
         = 16 * 4

\* two macrotiled levels keep the width of level 0 although levels 1 and 2 side
\* by side would be wider
C11_Witness ==
    /\ Laid2D
    /\ res.base.last_level = 1
    /\ res.swr.halign = KNOB_MACROTILE_X_DIM
    /\ SliceWidth(res) = LevelWidth(res, 0)
    /\ LevelWidth(res, 1) + LevelWidth(res, 2) > LevelWidth(res, 0)

(***************************************************************************)
(* C12: for a non-1D descriptor qpitch is the block rows of align(height0,  *)
(* valign), plus the aligned height of level 1 when there are 2 levels,     *)
(* plus max(aligned height of level 1, sum of the aligned heights of levels *)
(* 2..N) when there are more; the 2-level case is the max formula with an   *)
(* empty tail sum.                                                          *)
(***************************************************************************)
C12_QpitchHeight ==
    Laid2D =>
        LET v == EffValign(res)
            h0 == align(res.base.height0, v)
            level1 == align(u_minify(res.base.height0, 1), v)
            tail == SumAligned(res.base.height0, v, 2, res.base.last_level)
            levels == res.base.last_level + 1
            rows(height) == util_format_get_nblocksy(LayoutFormat(res.base), height)
        IN  /\ levels = 1 => res.swr.qpitch = rows(h0)
            /\ levels = 2 => res.swr.qpitch = rows(h0 + level1)
            /\ levels > 2 => res.swr.qpitch = rows(h0 + Max(level1, tail))
            /\ levels = 2 => (tail = 0 /\ res.swr.qpitch = rows(h0 + Max(level1, tail)))

\* the levels from 2 on are together higher than level 1
C12_Witness ==
    /\ Laid2D
    /\ res.base.last_level = MaxLastLevel
    /\ SumAligned(res.base.height0, EffValign(res), 2, MaxLastLevel)
         > LevelHeight(res, 1)
    /\ SliceHeight(res) = LevelHeight(res, 0)
         + SumAligned(res.base.height0, EffValign(res), 2, MaxLastLevel)

(***************************************************************************)
(* C13: for a 1D or 1D-array descriptor pitch is the format's bytes per     *)
(* block and qpitch the blocks of the sum over all levels 0..N of the level *)
(* width aligned to halign * blockWidth.                                    *)
(***************************************************************************)
C13_Layout1D ==
    (~res.null /\ Is1D(res.base)) =>
        /\ res.swr.pitch = util_format_get_blocksize(LayoutFormat(res.base))
        /\ res.swr.qpitch =
             util_format_get_nblocksx(
                 LayoutFormat(res.base),
                 SumAligned(res.base.width0, EffHalign(res), 0,
                            res.base.last_level))

\* a 1D chain of a 4-byte format whose levels add up beyond level 0
C13_Witness ==
    /\ ~res.null
    /\ Is1D(res.base)
    /\ res.base.last_level = MaxLastLevel
    /\ res.swr.pitch = 4
    /\ res.swr.qpitch > LevelWidth(res, 0)

(***************************************************************************)
(* C14: for a combined depth+stencil format with owned allocation the       *)
(* secondary surface's pitch is the primary pitch divided by the primary    *)
(* format's byte size, and its pitch, qpitch, depth and allocated size are  *)
(* those of the same layout run on the same descriptor with a 1-byte R8     *)
(* format.                                                                  *)
(***************************************************************************)
\* the surface state of the same descriptor laid out with an R8 format
LayoutAsR8(pt) ==
    LayoutSurface(NewResource([pt EXCEPT !.format = "PIPE_FORMAT_R8_UINT"]))

C14_SecondaryIsR8Layout ==
    ( /\ ret.op = "swr_resource_create"
      /\ ~res.null
      /\ OwnsMemory(res.base)
      /\ res.has_depth /\ res.has_stencil ) =>
        LET r8 == LayoutAsR8(res.base)
        IN  /\ res.secondary.pitch =
                 res.swr.pitch \div util_format_get_blocksize(res.base.format)
            /\ res.secondary.pitch = r8.pitch
            /\ res.secondary.qpitch = r8.qpitch
            /\ res.secondary.depth = r8.depth
            /\ \A b \in heap :
                 b.block = "secondary" => b.size = TotalSize(r8)

\* a depth+stencil chain whose stencil surface was allocated
C14_Witness ==
    /\ ret.op = "swr_resource_create"
    /\ ~res.null
    /\ res.has_depth /\ res.has_stencil
    /\ res.base.last_level = MaxLastLevel
    /\ res.secondary.pitch > 0
    /\ res.secondary.pitch < res.swr.pitch
    /\ \E b \in heap : b.block = "secondary"

(***************************************************************************)
(* C15: the surface-state format is the native rasterizer format when the   *)
(* logical format has one; otherwise it is chosen from the block byte size  *)
(* and the compressed flag alone (1 -> R8, 2 -> R16, 4 -> R32, 8 -> BC4 or  *)
(* R32G32, 16 -> BC5 or R32G32B32A32); the logical format, dimensions,      *)
(* levels and bind of the resource stay those of the template.              *)
(***************************************************************************)
GenericFormat ==
    [bytes \in {1, 2, 4, 8, 16} |->
        [compressed \in BOOLEAN |->
            IF bytes = 1 THEN "R8_UINT"
            ELSE IF bytes = 2 THEN "R16_UINT"
            ELSE IF bytes = 4 THEN "R32_UINT"
            ELSE IF bytes = 8
                 THEN (IF compressed THEN "BC4_UNORM" ELSE "R32G32_UINT")
            ELSE (IF compressed THEN "BC5_UNORM" ELSE "R32G32B32A32_UINT")]]

C15_FormatSubstitution ==
    ~res.null =>
        LET fmt == LayoutFormat(res.base)
            native == mesa_to_swr_format(fmt)
        IN  /\ native # "SWR_FORMAT_INVALID" => res.swr.format = native
            /\ native = "SWR_FORMAT_INVALID" =>
                 res.swr.format =
                     GenericFormat[util_format_get_blocksize(fmt)]
                                  [util_format_is_compressed(fmt)]
            /\ res.base = templ

\* a 16-byte compressed format without a native rasterizer format
C15_Witness ==
    /\ ~res.null
    /\ res.base.format = "PIPE_FORMAT_DXT5_RGBA"
    /\ mesa_to_swr_format(res.base.format) = "SWR_FORMAT_INVALID"
    /\ res.swr.format = "BC5_UNORM"
    /\ res.base = templ

(***************************************************************************)
(* swr_resource_destroy and the life of one resource.                       *)
(* The flush fence, the context and the status of a resource belong to the  *)
(* context side of the driver: a fence is pending from swr_fence_submit     *)
(* until swr_fence_finish has waited for it, and a resource is in use from  *)
(* the draw that reads or writes it until swr_resource_unused.              *)
(***************************************************************************)
swr_is_fence_pending(s) == s.fence_pending
swr_fence_submit(s) == [s EXCEPT !.fence_pending = TRUE]
swr_fence_finish(s) == [s EXCEPT !.fence_pending = FALSE]
swr_resource_unused(r) == [r EXCEPT !.status = FALSE]

Call(name, arg) == [call |-> name, arg |-> arg]

\* the block a call of the log releases ("none": a call that releases nothing)
ReleasedBlock(c) ==
    IF c.call = "AlignedFree" /\ c.arg # "NULL" THEN c.arg
    ELSE IF c.call = "displaytarget_destroy" THEN "display_target"
    ELSE IF c.call = "FREE" THEN "swr_resource"
    ELSE "none"

\* free(): the block the pointer names leaves the heap; free(NULL) does nothing
AlignedFree(h, ptr) == { b \in h : b.block # ptr }

\* DestroyWait waiting on the fence whenever there is a context
DestroyWaitAlways(s, r) ==
    IF s.pipe
    THEN [screen |-> swr_fence_finish(s), res |-> swr_resource_unused(r),
          log |-> (IF swr_is_fence_pending(s) THEN <<>>
                   ELSE <<Call("swr_fence_submit", "flush_fence")>>)
                  \o <<Call("swr_fence_finish", "flush_fence"),
                       Call("swr_resource_unused", "spr")>>]
    ELSE [screen |-> s, res |-> r, log |-> <<>>]

\* "Only wait on fence if the resource is being used"
DestroyWait(s, r) ==
    IF s.pipe /\ r.status
    THEN [screen |-> swr_fence_finish(s), res |-> swr_resource_unused(r),
          log |-> (IF swr_is_fence_pending(s) THEN <<>>
                   ELSE <<Call("swr_fence_submit", "flush_fence")>>)
                  \o <<Call("swr_fence_finish", "flush_fence"),
                       Call("swr_resource_unused", "spr")>>]
    ELSE [screen |-> s, res |-> r, log |-> <<>>]

\* DestroyRelease freeing the primary surface of a display target as well
DestroyReleaseBoth(r, h) ==
    [heap |-> { b \in h : b.block \notin {"display_target", r.swr.pBaseAddress,
                                           r.secondary.pBaseAddress,
                                           "swr_resource"} },
     log |-> (IF r.display_target # "NULL"
              THEN <<Call("displaytarget_destroy", r.display_target)>>
              ELSE <<>>)
             \o <<Call("AlignedFree", r.swr.pBaseAddress),
                  Call("AlignedFree", r.secondary.pBaseAddress),
                  Call("FREE", "spr")>>]

\* free the primary surface (the window system frees a display target), the
\* secondary surface and the struct
DestroyRelease(r, h) ==
    LET h1 == IF r.display_target # "NULL"
              THEN { b \in h : b.block # "display_target" }
              ELSE AlignedFree(h, r.swr.pBaseAddress)
        h2 == AlignedFree(h1, r.secondary.pBaseAddress)
    IN  [heap |-> { b \in h2 : b.block # "swr_resource" },
         log |-> <<IF r.display_target # "NULL"
                   THEN Call("displaytarget_destroy", r.display_target)
                   ELSE Call("AlignedFree", r.swr.pBaseAddress),
                   Call("AlignedFree", r.secondary.pBaseAddress),
                   Call("FREE", "spr")>>]

\* Yields the screen, the heap and the calls made, in order.
swr_resource_destroy(s, r, h) ==
    The({ The({ [screen |-> w.screen, heap |-> f.heap, log |-> w.log \o f.log]
                : f \in {DestroyRelease(w.res, h)} })
          : w \in {DestroyWait(s, r)} })

\* swr_create_context: the screen gets its context
ContextCreate ==
    /\ ~screen.pipe
    /\ screen' = [screen EXCEPT !.pipe = TRUE]
    /\ ret' = [op |-> "swr_create_context", ok |-> TRUE, faults |-> NoFaults,
               again |-> FALSE]
    /\ UNCHANGED <<templ, res, heap, log>>
    /\ UNCHANGED <<droidVars, dpy, blt>>

\* a draw of the context reads or writes the resource; the flush fence may or
\* may not have been submitted since
ResourceUse ==
    /\ screen.pipe
    /\ ~res.null
    /\ \E pending \in BOOLEAN :
         screen' = [screen EXCEPT !.fence_pending = pending]
    /\ res' = [res EXCEPT !.status = TRUE]
    /\ ret' = [op |-> "draw", ok |-> TRUE, faults |-> NoFaults, again |-> FALSE]
    /\ UNCHANGED <<templ, heap, log>>
    /\ UNCHANGED <<droidVars, dpy, blt>>

ResourceDestroy ==
    /\ ~res.null
    /\ \E d \in {swr_resource_destroy(screen, res, heap)} :
         /\ screen' = d.screen
         /\ heap' = d.heap
         /\ log' = d.log
    /\ res' = NoRes
    /\ ret' = [op |-> "swr_resource_destroy", ok |-> TRUE, faults |-> NoFaults,
               again |-> FALSE]
    /\ UNCHANGED templ
    /\ UNCHANGED <<droidVars, dpy, blt>>

\* a spread of owned textures, display targets, depth+stencil and buffers
DisplayFormatBinds ==
    { <<"PIPE_FORMAT_R8G8B8A8_UNORM", {"PIPE_BIND_DISPLAY_TARGET"}>>,
      <<"PIPE_FORMAT_R8G8B8A8_UNORM", {"PIPE_BIND_SCANOUT"}>>,
      <<"PIPE_FORMAT_R8G8B8A8_UNORM",
        {"PIPE_BIND_RENDER_TARGET", "PIPE_BIND_SHARED"}>>,
      <<"PIPE_FORMAT_Z24_UNORM_S8_UINT",
        {"PIPE_BIND_DEPTH_STENCIL", "PIPE_BIND_SHARED"}>> }

LifeTemplates ==
    { t \in Templates :
        /\ t.width0 = MaxDim
        /\ t.height0 \in {1, MaxDim}
        /\ t.last_level \in {0, MaxLastLevel}
        /\ t.target \in {"PIPE_TEXTURE_2D", "PIPE_TEXTURE_1D", "PIPE_BUFFER"} }
    \cup { Template([target |-> "PIPE_TEXTURE_2D", depth0 |-> 1,
                     array_size |-> 1], fb, MaxDim, h, l) :
             fb \in DisplayFormatBinds, h \in {1, MaxDim},
             l \in {0, MaxLastLevel} }

InitLife ==
    /\ templ \in LifeTemplates
    /\ InitScreen

NextLife == ResourceCreate \/ ContextCreate \/ ResourceUse \/ ResourceDestroy

SpecLife == InitLife /\ [][NextLife]_vars

(***************************************************************************)
(* What one swr_resource_destroy call did, read from its log.               *)
(***************************************************************************)
\* how often the calls of l release the block named name
Releases(l, name) ==
    Cardinality({ i \in DOMAIN l : ReleasedBlock(l[i]) = name })

CallsOf(l, name) == { i \in DOMAIN l : l[i].call = name }

ReleaseCalls(l) ==
    { i \in DOMAIN l :
        l[i].call \in {"AlignedFree", "displaytarget_destroy", "FREE"} }

(***************************************************************************)
(* C16: swr_resource_destroy releases every block of a created resource     *)
(* exactly once and nothing else: the primary memory by displaytarget_      *)
(* destroy when the resource has a display target and by AlignedFree        *)
(* otherwise, never both, and the secondary memory once; a creation that    *)
(* failed retains no memory.                                                *)
(***************************************************************************)
C16_ReleasedExactlyOnce ==
    [][ /\ (ResourceCreate /\ res'.null) => (heap' = heap /\ heap' = {})
        /\ ResourceDestroy =>
             /\ \A b \in heap : Releases(log', b.block) = 1
             /\ \A i \in DOMAIN log' :
                  ReleasedBlock(log'[i]) # "none" =>
                      \E b \in heap : b.block = ReleasedBlock(log'[i])
             /\ heap' = {}
             /\ res.display_target # "NULL" =>
                  /\ Cardinality(CallsOf(log', "displaytarget_destroy")) = 1
                  /\ \A i \in CallsOf(log', "AlignedFree") : log'[i].arg = "NULL"
             /\ res.display_target = "NULL" =>
                  CallsOf(log', "displaytarget_destroy") = {} ]_vars

\* a depth+stencil resource with both surfaces allocated has been destroyed
C16_Witness ==
    /\ ret.op = "swr_resource_destroy"
    /\ Releases(log, "primary") = 1
    /\ Releases(log, "secondary") = 1
    /\ Releases(log, "swr_resource") = 1
    /\ heap = {}

(***************************************************************************)
(* C17: when a context exists and the resource is in use, swr_resource_     *)
(* destroy submits the flush fence if none is pending, finishes it and      *)
(* marks the resource unused before it releases any memory; when the        *)
(* resource is not in use it does not wait on the fence.                    *)
(***************************************************************************)
C17_FenceBeforeRelease ==
    [][ ResourceDestroy =>
          /\ (screen.pipe /\ res.status) =>
               LET n == IF swr_is_fence_pending(screen) THEN 0 ELSE 1
               IN  /\ Len(log') >= n + 2
                   /\ ~swr_is_fence_pending(screen) =>
                        log'[1].call = "swr_fence_submit"
                   /\ swr_is_fence_pending(screen) =>
                        CallsOf(log', "swr_fence_submit") = {}
                   /\ log'[n + 1].call = "swr_fence_finish"
                   /\ log'[n + 2].call = "swr_resource_unused"
                   /\ ReleaseCalls(log') # {}
                   /\ \A i \in ReleaseCalls(log') : i > n + 2
                   /\ ~swr_is_fence_pending(screen')
          /\ ~res.status =>
               /\ CallsOf(log', "swr_fence_finish") = {}
               /\ CallsOf(log', "swr_fence_submit") = {} ]_vars

\* a resource in use was destroyed while no fence was pending
C17_Witness ==
    /\ ret.op = "swr_resource_destroy"
    /\ Len(log) = 6
    /\ log[1].call = "swr_fence_submit"
    /\ log[2].call = "swr_fence_finish"
    /\ log[3].call = "swr_resource_unused"
    /\ log[4].call = "AlignedFree"

(***************************************************************************)
(* C18: for a texture bound as display target, scanout or shared,           *)
(* swr_resource_create fills the surface state by the layout computation,   *)
(* allocates neither a primary nor a secondary surface of its own and takes *)
(* the mapping of the window system's display target as base address; when  *)
(* the window system supplies no display target it returns no resource and  *)
(* retains nothing.                                                         *)
(***************************************************************************)
C18_DisplayTargetNotOwned ==
    ( /\ ret.op = "swr_resource_create"
      /\ ret.faults.calloc
      /\ swr_resource_is_texture(templ)
      /\ IsDisplayable(templ) ) =>
        /\ Backing(heap) = {}
        /\ ret.ok <=> ret.faults.winsys # "FAIL"
        /\ ret.ok =>
             /\ [res.swr EXCEPT !.pBaseAddress = "NULL"]
                  = LayoutSurface(NewResource(templ))
             /\ res.mip_offsets
                  = LayoutOffsets(ZeroOffsets, templ.last_level, res.swr)
             /\ res.display_target # "NULL"
             /\ res.swr.pBaseAddress
                  = (IF ret.faults.winsys = "OK" THEN "dt_map" ELSE "NULL")
             /\ res.secondary = ZeroSurface
             /\ { b.block : b \in heap } = {"swr_resource", "display_target"}
        /\ ~ret.ok => (res.null /\ heap = {})

\* a shared depth+stencil texture was created on a display target
C18_Witness ==
    /\ ret.op = "swr_resource_create"
    /\ ret.ok
    /\ "PIPE_BIND_SHARED" \in templ.bind
    /\ res.has_depth /\ res.has_stencil
    /\ res.swr.pBaseAddress = "dt_map"
    /\ res.swr.pitch > 0
    /\ Backing(heap) = {}

(***************************************************************************)
(* The Android EGL platform: one surface, its native window, the display    *)
(* mutex.  Thread t1 is the thread the surface is current to and makes      *)
(* every call on it; thread t2 makes other EGL calls on the display, which  *)
(* take and release the display mutex.  The EGL entry points take the       *)
(* display mutex before they call into the platform and release it after.   *)
(***************************************************************************)
\* buffer b of the native window is b pixels wide
BufferWidth(b) == b

\* what dequeueBuffer may hand out: a buffer that is not out, or 0 for failure
Dequeueable(w) == {0} \cup (Buffers \ w.out)

\* droid_window_dequeue_buffer; got is the answer of dequeueBuffer
droid_window_dequeue_buffer(s, w, got) ==
    IF got = 0
    THEN [ok |-> FALSE, surf |-> s, win |-> w]
    ELSE [ok |-> TRUE,
          surf |-> [s EXCEPT !.buffer = got],
          win |-> [w EXCEPT !.out = @ \cup {got}, !.refs[got] = @ + 1]]

\* NeedsDequeue asking for a buffer on every update
NeedsDequeueAlways(s) == TRUE

\* "!dri2_surf->buffer"
NeedsDequeue(s) == s.buffer = 0

\* droid_free_local_buffers
droid_free_local_buffers(s) == [s EXCEPT !.local_buffers = FALSE]

\* update_buffers: 0, or -1 when no buffer could be dequeued
update_buffers(s, w, got) ==
    IF s.type # "EGL_WINDOW_BIT"
    THEN [result |-> 0, surf |-> s, win |-> w]
    ELSE The({
           IF ~d.ok
           THEN [result |-> 0 - 1, surf |-> s, win |-> w]
           ELSE [result |-> 0,
                 surf |-> IF d.surf.Width # BufferWidth(d.surf.buffer)
                          THEN [droid_free_local_buffers(d.surf) EXCEPT
                                  !.Width = BufferWidth(d.surf.buffer)]
                          ELSE d.surf,
                 win |-> d.win]
           : d \in { IF NeedsDequeue(s)
                     THEN droid_window_dequeue_buffer(s, w, got)
                     ELSE [ok |-> TRUE, surf |-> s, win |-> w] } })

\* swrastUpdateBuffer: 0, or 1 when no buffer could be dequeued
swrastUpdateBuffer(s, w, got) ==
    IF s.type # "EGL_WINDOW_BIT"
    THEN [result |-> 0, surf |-> s, win |-> w]
    ELSE The({
           IF ~d.ok
           THEN [result |-> 1, surf |-> s, win |-> w]
           ELSE [result |-> 0,
                 surf |-> [d.surf EXCEPT !.Width = BufferWidth(d.surf.buffer)],
                 win |-> d.win]
           : d \in { IF NeedsDequeue(s)
                     THEN droid_window_dequeue_buffer(s, w, got)
                     ELSE [ok |-> TRUE, surf |-> s, win |-> w] } })

\* get_back_bo; created tells whether the buffer yields a DRI image
get_back_bo(s, created) ==
    IF s.dri_image_back THEN [result |-> 0, surf |-> s]
    ELSE IF s.buffer = 0 THEN [result |-> 0 - 1, surf |-> s]
    ELSE IF ~created THEN [result |-> 0 - 1, surf |-> s]
    ELSE [result |-> 0, surf |-> [s EXCEPT !.dri_image_back = TRUE]]

\* BackMissing taking every back request for served
BackMissingNever(b) == FALSE

\* droid_image_get_buffers: "get_back_bo(dri2_surf) < 0" on a window, then
\* "!dri2_surf->dri_image_back"; b is what get_back_bo left
BackMissing(b) == b.result < 0 \/ ~b.surf.dri_image_back

\* droid_image_get_buffers; mask is buffer_mask, front and back tell whether
\* createImage and createImageFromFds yield an image
droid_image_get_buffers(s, w, mask, got, front, back) ==
    The({
      IF u.result < 0
      THEN [result |-> 0, image_mask |-> {}, surf |-> u.surf, win |-> u.win]
      ELSE The({
        IF "FRONT" \in mask /\ (f.surf.type = "EGL_WINDOW_BIT" \/ ~f.surf.dri_image_front)
        THEN [result |-> 0, image_mask |-> {}, surf |-> f.surf, win |-> u.win]
        ELSE The({
          IF "BACK" \in mask /\ BackMissing(b)
          THEN [result |-> 0, image_mask |-> mask \cap {"FRONT"},
                surf |-> b.surf, win |-> u.win]
          ELSE [result |-> 1, image_mask |-> mask, surf |-> b.surf,
                win |-> u.win]
          : b \in { IF "BACK" \in mask /\ f.surf.type = "EGL_WINDOW_BIT"
                    THEN get_back_bo(f.surf, back)
                    ELSE [result |-> 0, surf |-> f.surf] } })
        : f \in { IF /\ "FRONT" \in mask
                     /\ u.surf.type = "EGL_PBUFFER_BIT"
                     /\ ~u.surf.dri_image_front
                     /\ front
                  THEN [surf |-> [u.surf EXCEPT !.dri_image_front = TRUE]]
                  ELSE [surf |-> u.surf] } })
      : u \in {update_buffers(s, w, got)} })

\* droid_get_buffers_with_format; local tells whether the attachments ask for
\* a local buffer and allocateBuffer yields one
droid_get_buffers_with_format(s, w, got, local) ==
    The({
      IF u.result < 0
      THEN [result |-> 0, surf |-> u.surf, win |-> u.win]
      ELSE [result |-> 1,
            surf |-> [u.surf EXCEPT !.local_buffers = @ \/ local],
            win |-> u.win]
      : u \in {update_buffers(s, w, got)} })

\* mtx_unlock leaving the display mutex with its holder
enqueue_unlock_keep(m) == m

\* droid_window_enqueue_buffer, "mtx_unlock(&disp->Mutex)"
enqueue_unlock(m) == "free"

\* droid_window_enqueue_buffer, queueBuffer to "dri2_surf->buffer = NULL":
\* the window takes the buffer back; misuse records a buffer queued that was
\* not out, or a reference dropped that was not held
enqueue_queueBuffer(s, w) ==
    [surf |-> [s EXCEPT !.buffer = 0],
     win |-> [w EXCEPT !.out = @ \ {s.buffer},
                       !.refs[s.buffer] = Max(@ - 1, 0),
                       !.misuse = @ \/ s.buffer \notin w.out \/ w.refs[s.buffer] = 0]]

\* droid_window_enqueue_buffer, destroyImage of the back image
enqueue_destroy_image(s) == [s EXCEPT !.dri_image_back = FALSE]

\* where an operation goes on after droid_window_enqueue_buffer returned
AfterEnqueue(op) == IF op = "destroy" THEN "finish" ELSE "return"

SurfaceTypes == {"EGL_WINDOW_BIT", "EGL_PBUFFER_BIT"}

\* droid_create_surface under eglCreateWindowSurface / eglCreatePbufferSurface;
\* ok tells whether createNewDrawable yields a drawable
DroidCreateSurface ==
    /\ ~surf.alive /\ egl.pc = Idle /\ egl.mutex = "free"
    /\ \E type \in SurfaceTypes, w \in Buffers, ok \in BOOLEAN :
         IF ok
         THEN /\ surf' = [NoSurface EXCEPT !.alive = TRUE, !.type = type, !.Width = w]
              /\ win' = IF type = "EGL_WINDOW_BIT"
                        THEN [win EXCEPT !.window_refs = @ + 1] ELSE win
         ELSE UNCHANGED <<surf, win>>
    /\ egl' = [egl EXCEPT !.last = [NoResult EXCEPT !.op = "create"]]
    /\ UNCHANGED <<swrVars, dpy, blt>>

\* the image loader's getBuffers callback, from a GL call of thread t1
ImageGetBuffers ==
    /\ surf.alive /\ egl.pc = Idle
    /\ \E mask \in SUBSET {"FRONT", "BACK"}, got \in Dequeueable(win),
          front \in BOOLEAN, back \in BOOLEAN :
         \E r \in {droid_image_get_buffers(surf, win, mask, got, front, back)} :
            /\ surf' = r.surf
            /\ win' = r.win
            /\ egl' = [egl EXCEPT !.last =
                         [op |-> "image_get_buffers", result |-> r.result,
                          mask |-> mask, image_mask |-> r.image_mask,
                          front |-> "FRONT" \in r.image_mask /\ r.surf.dri_image_front,
                          back |-> "BACK" \in r.image_mask /\ r.surf.dri_image_back]]
    /\ UNCHANGED <<swrVars, dpy, blt>>

\* the DRI2 loader's getBuffersWithFormat callback
Dri2GetBuffers ==
    /\ surf.alive /\ egl.pc = Idle
    /\ \E got \in Dequeueable(win), local \in BOOLEAN :
         \E r \in {droid_get_buffers_with_format(surf, win, got, local)} :
            /\ surf' = r.surf
            /\ win' = r.win
            /\ egl' = [egl EXCEPT !.last =
                         [NoResult EXCEPT !.op = "get_buffers", !.result = r.result]]
    /\ UNCHANGED <<swrVars, dpy, blt>>

\* swrastGetDrawableInfo
SwrastGetDrawableInfo ==
    /\ surf.alive /\ egl.pc = Idle
    /\ \E got \in Dequeueable(win) :
         \E r \in {swrastUpdateBuffer(surf, win, got)} :
            /\ surf' = r.surf
            /\ win' = r.win
            /\ egl' = [egl EXCEPT !.last =
                         [NoResult EXCEPT !.op = "swrast_update", !.result = r.result]]
    /\ UNCHANGED <<swrVars, dpy, blt>>

\* swrastGetImage, from a GL call of thread t1; it reads the buffer after
\* swrastUpdateBuffer reported success and leaves it with the surface
SwrastGetImage ==
    /\ surf.alive /\ egl.pc = Idle
    /\ \E got \in Dequeueable(win) :
         \E r \in {swrastUpdateBuffer(surf, win, got)} :
            /\ surf' = r.surf
            /\ win' = r.win
            /\ egl' = [egl EXCEPT
                         !.pc = IF r.result = 0 /\ r.surf.buffer = 0
                                THEN [op |-> "getimage", at |-> "crashed"]
                                ELSE Idle,
                         !.last = [NoResult EXCEPT !.op = "swrast_update",
                                                   !.result = r.result]]
    /\ UNCHANGED <<swrVars, dpy, blt>>

DroidOps == {"swap", "putimage", "destroy"}

\* eglSwapBuffers (hardware path, software path) and eglDestroySurface take
\* the display mutex and call into the platform
ApiBegin ==
    /\ surf.alive /\ egl.pc = Idle /\ egl.mutex = "free"
    /\ \E op \in DroidOps :
         egl' = [egl EXCEPT !.mutex = "t1", !.pc = [op |-> op, at |-> "entry"]]
    /\ UNCHANGED <<surf, win>>
    /\ UNCHANGED <<swrVars, dpy, blt>>

\* droid_swap_buffers up to the call of droid_window_enqueue_buffer
SwapEntry ==
    /\ egl.pc = [op |-> "swap", at |-> "entry"]
    /\ egl' = [egl EXCEPT !.pc.at =
                 IF surf.type = "EGL_WINDOW_BIT" /\ surf.buffer # 0
                 THEN "enq_unlock" ELSE "return"]
    /\ UNCHANGED <<surf, win>>
    /\ UNCHANGED <<swrVars, dpy, blt>>

\* swrastPutImage2 up to the call of droid_window_enqueue_buffer; locked
\* tells whether gralloc locks the buffer
PutImageEntry ==
    /\ egl.pc = [op |-> "putimage", at |-> "entry"]
    /\ \E got \in Dequeueable(win), locked \in BOOLEAN :
         \E r \in {swrastUpdateBuffer(surf, win, got)} :
            /\ surf' = r.surf
            /\ win' = r.win
            /\ egl' = [egl EXCEPT
                         !.pc.at = IF r.result # 0 THEN "return"
                                   ELSE IF r.surf.buffer = 0 THEN "crashed"
                                   ELSE IF ~locked THEN "return"
                                   ELSE "enq_unlock",
                         !.last = [NoResult EXCEPT !.op = "swrast_update",
                                                   !.result = r.result]]
    /\ UNCHANGED <<swrVars, dpy, blt>>

\* droid_destroy_surface up to the call of droid_window_cancel_buffer
DestroyEntry ==
    /\ egl.pc = [op |-> "destroy", at |-> "entry"]
    /\ surf' = droid_free_local_buffers(surf)
    /\ egl' = [egl EXCEPT !.pc.at =
                 IF surf.type = "EGL_WINDOW_BIT" /\ surf.buffer # 0
                 THEN "enq_unlock" ELSE "finish"]
    /\ UNCHANGED win
    /\ UNCHANGED <<swrVars, dpy, blt>>

\* droid_window_enqueue_buffer: mtx_unlock
EnqUnlock ==
    /\ egl.pc.at = "enq_unlock"
    /\ egl' = [egl EXCEPT !.mutex = enqueue_unlock(egl.mutex), !.pc.at = "enq_queue"]
    /\ UNCHANGED <<surf, win>>
    /\ UNCHANGED <<swrVars, dpy, blt>>

\* droid_window_enqueue_buffer: queueBuffer, decRef, buffer = NULL
EnqQueueBuffer ==
    /\ egl.pc.at = "enq_queue"
    /\ \E r \in {enqueue_queueBuffer(surf, win)} :
         /\ surf' = r.surf
         /\ win' = r.win
    /\ egl' = [egl EXCEPT !.pc.at = "enq_lock"]
    /\ UNCHANGED <<swrVars, dpy, blt>>

\* droid_window_enqueue_buffer: mtx_lock, which waits for the mutex
EnqLock ==
    /\ egl.pc.at = "enq_lock"
    /\ egl.mutex = "free"
    /\ egl' = [egl EXCEPT !.mutex = "t1", !.pc.at = "enq_image"]
    /\ UNCHANGED <<surf, win>>
    /\ UNCHANGED <<swrVars, dpy, blt>>

\* droid_window_enqueue_buffer: destroy the back image and return
EnqReturn ==
    /\ egl.pc.at = "enq_image"
    /\ surf' = enqueue_destroy_image(surf)
    /\ egl' = [egl EXCEPT !.pc.at = AfterEnqueue(egl.pc.op)]
    /\ UNCHANGED win
    /\ UNCHANGED <<swrVars, dpy, blt>>

\* droid_destroy_surface after the buffer was cancelled
DestroyFinish ==
    /\ egl.pc = [op |-> "destroy", at |-> "finish"]
    /\ win' = IF surf.type = "EGL_WINDOW_BIT"
              THEN [win EXCEPT !.window_refs = @ - 1] ELSE win
    /\ surf' = NoSurface
    /\ egl' = [egl EXCEPT !.pc.at = "return"]
    /\ UNCHANGED <<swrVars, dpy, blt>>

\* the EGL entry point releases the display mutex and returns
ApiReturn ==
    /\ egl.pc.at = "return"
    /\ egl' = [egl EXCEPT !.mutex = "free", !.pc = Idle]
    /\ UNCHANGED <<surf, win>>
    /\ UNCHANGED <<swrVars, dpy, blt>>

\* another thread enters an EGL call on the display
OtherBegin ==
    /\ egl.other = "idle" /\ egl.mutex = "free"
    /\ egl' = [egl EXCEPT !.mutex = "t2", !.other = "in"]
    /\ UNCHANGED <<surf, win>>
    /\ UNCHANGED <<swrVars, dpy, blt>>

\* the other thread's EGL call returns
OtherEnd ==
    /\ egl.other = "in"
    /\ egl' = [egl EXCEPT !.mutex = "free", !.other = "idle"]
    /\ UNCHANGED <<surf, win>>
    /\ UNCHANGED <<swrVars, dpy, blt>>

InitDroid ==
    /\ templ = Template(BufferTarget, <<"PIPE_FORMAT_R8_UNORM", {}>>, 1, 1, 0)
    /\ res = NoRes /\ heap = {} /\ ret = NoCall
    /\ screen = NewScreen /\ log = <<>>
    /\ surf = NoSurface /\ win = NewWindow /\ egl = NoThreads
    /\ dpy = NoDisplay /\ blt = NoBlits

NextDroid ==
    \/ DroidCreateSurface
    \/ ImageGetBuffers
    \/ Dri2GetBuffers
    \/ SwrastGetDrawableInfo
    \/ SwrastGetImage
    \/ ApiBegin
    \/ SwapEntry
    \/ PutImageEntry
    \/ DestroyEntry
    \/ EnqUnlock
    \/ EnqQueueBuffer
    \/ EnqLock
    \/ EnqReturn
    \/ DestroyFinish
    \/ ApiReturn
    \/ OtherBegin
    \/ OtherEnd

SpecDroid == InitDroid /\ [][NextDroid]_vars

(***************************************************************************)
(* C19: for a window surface, over any sequence of get-buffers, swrast      *)
(* update, swap, put-image and destroy operations, dequeueBuffer is called  *)
(* only while the surface holds no buffer, so at most one dequeued buffer   *)
(* is out at a time and it is the one the surface holds; every dequeued     *)
(* buffer carries exactly one reference and goes back to the window by one  *)
(* queueBuffer with one decRef, before the next dequeue and at the latest   *)
(* when the surface is destroyed.                                           *)
(***************************************************************************)
C19_BufferExchange ==
    [][ /\ (win'.out \ win.out # {}) =>
              /\ surf.type = "EGL_WINDOW_BIT"
              /\ surf.buffer = 0
              /\ win.out = {}
              /\ win'.out = {surf'.buffer}
        /\ (win.out \ win'.out # {}) =>
              /\ win.out = {surf.buffer}
              /\ win'.out = {}
              /\ surf'.buffer = 0
        /\ ~win'.misuse
        /\ Cardinality(win'.out) <= 1
        /\ win'.out = (IF surf'.buffer = 0 THEN {} ELSE {surf'.buffer})
        /\ \A b \in Buffers : win'.refs[b] = (IF b \in win'.out THEN 1 ELSE 0)
        /\ ~surf'.alive => win'.out = {}
      ]_vars

\* the surface is being destroyed and its buffer went back to the window
C19_Witness ==
    /\ egl.pc = [op |-> "destroy", at |-> "enq_lock"]
    /\ surf.type = "EGL_WINDOW_BIT"
    /\ surf.buffer = 0
    /\ win.out = {}
    /\ ~win.misuse

(***************************************************************************)
(* C20: droid_window_enqueue_buffer is entered with the display mutex held, *)
(* releases it before queueBuffer, does not hold it during queueBuffer,     *)
(* holds it again when it destroys the back image, and returns with the     *)
(* mutex held, no buffer and no back image.                                 *)
(***************************************************************************)
C20_EnqueueMutex ==
    [][ /\ egl.pc.at = "enq_unlock" => egl.mutex = "t1"
        /\ egl.pc.at = "enq_queue" => egl.mutex # "t1"
        /\ (win.out \ win'.out # {}) => (egl.mutex # "t1" /\ egl'.mutex # "t1")
        /\ egl.pc.at = "enq_image" => egl.mutex = "t1"
        /\ (egl.pc.at = "enq_image" /\ egl'.pc.at # "enq_image") =>
              /\ egl'.mutex = "t1"
              /\ surf'.buffer = 0
              /\ ~surf'.dri_image_back
      ]_vars

\* queueBuffer is about to be called while another thread holds the mutex
C20_Witness ==
    /\ egl.pc.at = "enq_queue"
    /\ egl.mutex = "t2"
    /\ surf.buffer # 0
    /\ surf.dri_image_back

(***************************************************************************)
(* C21: droid_image_get_buffers returns 1 only if every requested buffer    *)
(* was provided: then image_mask is exactly the requested front/back bits   *)
(* and each of these images is non-NULL; a front request on a window        *)
(* surface returns 0; a back image of a window surface is created only      *)
(* while the surface holds a buffer that is dequeued from the window.       *)
(***************************************************************************)
C21_ImageGetBuffers ==
    [][ /\ ImageGetBuffers =>
              /\ egl'.last.result \in {0, 1}
              /\ egl'.last.result = 1 =>
                    /\ egl'.last.image_mask = egl'.last.mask
                    /\ "FRONT" \in egl'.last.mask => egl'.last.front
                    /\ "BACK" \in egl'.last.mask => egl'.last.back
              /\ ("FRONT" \in egl'.last.mask /\ surf.type = "EGL_WINDOW_BIT") =>
                    egl'.last.result = 0
        /\ (surf'.type = "EGL_WINDOW_BIT" /\ ~surf.dri_image_back /\ surf'.dri_image_back) =>
              /\ surf'.buffer # 0
              /\ surf'.buffer \in win'.out
      ]_vars

\* a window surface was asked for its back image and got it
C21_Witness ==
    /\ egl.last.op = "image_get_buffers"
    /\ egl.last.result = 1
    /\ egl.last.mask = {"BACK"}
    /\ egl.last.back
    /\ surf.type = "EGL_WINDOW_BIT"
    /\ surf.dri_image_back
    /\ surf.buffer \in win.out

(***************************************************************************)
(* C22: swrastPutImage, swrastPutImage2 and swrastGetImage access the       *)
(* surface's native buffer only when one is held: when swrastUpdateBuffer   *)
(* reports success the surface holds a buffer, for window and pbuffer       *)
(* surfaces alike, so no callback dereferences a NULL buffer.               *)
(***************************************************************************)
C22_UpdateSuccessMeansBuffer ==
    [][ (PutImageEntry \/ SwrastGetImage) =>
           /\ egl'.last.result = 0 => surf'.buffer # 0
           /\ egl'.pc.at # "crashed"
      ]_vars

(***************************************************************************)
(* dri2_initialize_android.  The display state (struct dri2_egl_display)    *)
(* is a heap block; dpy.live and dpy.freed are the blocks allocated and     *)
(* freed so far, dpy.DriverData is 0 (NULL) or a block.                     *)
(***************************************************************************)
MaxInits == 2

\* the step of dri2_initialize_android_drm that fails ("none": all succeed)
DrmSteps == {"calloc", "gralloc", "device", "driver_name", "load_driver",
             "create_screen", "add_configs", "none"}

\* the step of dri2_initialize_android_swrast that fails
SwrastSteps == {"calloc", "load_driver", "create_screen", "add_configs", "none"}

\* calloc(1, sizeof(*dri2_dpy)): a block that was not handed out before
NewBlock(d) == Cardinality(d.live \cup d.freed) + 1

\* dri2_initialize_android_drm; fail is the step that fails
dri2_initialize_android_drm(d, fail) ==
    IF fail = "calloc"
    THEN [d EXCEPT !.result = FALSE, !.tried = Append(@, "drm")]
    ELSE IF fail = "none"
    THEN [d EXCEPT !.DriverData = NewBlock(d),
                   !.live = @ \cup {NewBlock(d)},
                   !.vtbl = "droid_display_vtbl",
                   !.result = TRUE,
                   !.tried = Append(@, "drm")]
    ELSE [d EXCEPT !.DriverData = 0,
                   !.freed = @ \cup {NewBlock(d)},
                   !.result = FALSE,
                   !.tried = Append(@, "drm")]

\* dri2_initialize_android_swrast; fail is the step that fails
dri2_initialize_android_swrast(d, fail) ==
    IF fail = "calloc"
    THEN [d EXCEPT !.result = FALSE, !.tried = Append(@, "swrast")]
    ELSE IF fail = "none"
    THEN [d EXCEPT !.DriverData = NewBlock(d),
                   !.live = @ \cup {NewBlock(d)},
                   !.vtbl = "swrast_display_vtbl",
                   !.result = TRUE,
                   !.tried = Append(@, "swrast")]
    ELSE [d EXCEPT !.DriverData = NewBlock(d),
                   !.freed = @ \cup {NewBlock(d)},
                   !.result = FALSE,
                   !.tried = Append(@, "swrast")]

\* "(getenv("LIBGL_ALWAYS_SOFTWARE") == NULL) && is_drm_gralloc()"
droid_hw_accel(c) == ~c.software /\ c.drm_gralloc

\* dri2_initialize_android; c holds the environment and the failing steps
dri2_initialize_android(d, c) ==
    The({
      IF ~c.gralloc
      THEN [d0 EXCEPT !.result = FALSE]
      ELSE IF droid_hw_accel(c)
      THEN The({ IF ~h.result THEN dri2_initialize_android_swrast(h, c.swrast) ELSE h
                 : h \in {dri2_initialize_android_drm(d0, c.drm)} })
      ELSE dri2_initialize_android_swrast(d0, c.swrast)
      : d0 \in {[d EXCEPT !.call = c, !.tried = <<>>]} })

InitCalls ==
    [software : BOOLEAN, drm_gralloc : BOOLEAN, gralloc : BOOLEAN,
     drm : DrmSteps, swrast : SwrastSteps]

\* eglInitialize on a display that is not initialized
Initialize ==
    /\ ~dpy.result
    /\ Cardinality(dpy.freed) < 2 * MaxInits
    /\ \E c \in InitCalls : dpy' = dri2_initialize_android(dpy, c)
    /\ UNCHANGED <<swrVars, droidVars, blt>>

InitInit == InitDroid

NextInit == Initialize

SpecInit == InitInit /\ [][NextInit]_vars

(***************************************************************************)
(* C23: after dri2_initialize_android returned failure, through the         *)
(* hardware path, the software path or the fallback, DriverData does not    *)
(* refer to freed display state; the hardware path is tried only when       *)
(* LIBGL_ALWAYS_SOFTWARE is unset and gralloc is a DRM gralloc, and a       *)
(* failed hardware initialization is followed by a software initialization  *)
(* whose result is returned.                                                *)
(***************************************************************************)
C23_FailureLeavesNoDanglingDisplay ==
    dpy.call # NoInit =>
        /\ ~dpy.result => dpy.DriverData \notin dpy.freed
        /\ (\E i \in 1..Len(dpy.tried) : dpy.tried[i] = "drm") =>
              (~dpy.call.software /\ dpy.call.drm_gralloc)
        /\ (dpy.tried # <<>> /\ dpy.tried[1] = "drm" /\ dpy.call.drm # "none") =>
              /\ dpy.tried = <<"drm", "swrast">>
              /\ dpy.result = (dpy.call.swrast = "none")

(***************************************************************************)
(* The i965 blitter (intel_blit.c).  blt.batch is the batch buffer as the   *)
(* sequence of its reservations (BEGIN_BATCH_BLT .. ADVANCE_BATCH), each    *)
(* with the dwords it reserved and the packets written into it; blt.used is *)
(* the dwords in use; blt.hw is the BCS_SWCTRL tiling state the blitter is  *)
(* left in by the batches flushed so far; blt.emitted are the blit packets  *)
(* of the last call, flushed or not.  Surfaces have no Yf/Ys tiling         *)
(* (tr_mode is INTEL_MIPTREE_TRMODE_NONE), so no fast copy blit is used.    *)
(***************************************************************************)
\* dwords a batch holds
BatchDwords == 64

\* conversion of an integer to GLshort / int16_t
ToShort(v) == ((v + 32768 + 65536 * 16384) % 65536) - 32768

\* conversion of an integer to uint16_t
ToU16(v) == (v + 65536 * 16384) % 65536

\* C division, which truncates towards zero
CDiv(a, b) == IF a >= 0 THEN a \div b ELSE 0 - ((0 - a) \div b)

Min(a, b) == IF a < b THEN a ELSE b

\* the tiling state a tiling packet loads, or the state before it
RECURSIVE ExecPackets(_, _)
ExecPackets(ps, t) ==
    IF ps = <<>> THEN t
    ELSE ExecPackets(Tail(ps),
                     IF Head(ps).kind = "tiling"
                     THEN [dst_y |-> Head(ps).dst_y, src_y |-> Head(ps).src_y]
                     ELSE t)

RECURSIVE ExecBatch(_, _)
ExecBatch(rs, t) ==
    IF rs = <<>> THEN t
    ELSE ExecBatch(Tail(rs), ExecPackets(Head(rs).packets, t))

\* intel_batchbuffer_flush: the blitter runs the batch; a new batch begins
intel_batchbuffer_flush(st) ==
    [st EXCEPT !.hw = ExecBatch(st.batch, st.hw), !.batch = <<>>, !.used = 0]

\* intel_batchbuffer_require_space: flush when n more dwords do not fit
intel_batchbuffer_require_space(st, n) ==
    IF st.used + n > BatchDwords THEN intel_batchbuffer_flush(st) ELSE st

\* set_blitter_tiling: MI_FLUSH_DW (4 dwords), MI_LOAD_REGISTER_IMM (3 dwords)
set_blitter_tiling(dst_y_tiled, src_y_tiled) ==
    [kind |-> "tiling", dwords |-> 7, dst_y |-> dst_y_tiled, src_y |-> src_y_tiled]

\* BEGIN_BATCH_BLT_TILED: "n + ((dst_y_tiled || src_y_tiled) ? 14 : 0)"
BatchBltTiledLength(n, dst_y_tiled, src_y_tiled) ==
    n + (IF dst_y_tiled \/ src_y_tiled THEN 14 ELSE 0)

\* ADVANCE_BATCH_TILED leaving the tiling state as the blit set it
AdvanceTiled_no_reset(dst_y_tiled, src_y_tiled) == <<>>

\* ADVANCE_BATCH_TILED: SET_BLITTER_TILING(brw, false, false) when tiled
AdvanceTiled(dst_y_tiled, src_y_tiled) ==
    IF dst_y_tiled \/ src_y_tiled
    THEN <<set_blitter_tiling(FALSE, FALSE)>> ELSE <<>>

\* BEGIN_BATCH_BLT_TILED .. ADVANCE_BATCH_TILED around packet p of n dwords
EmitTiled(st, n, p, dst_y_tiled, src_y_tiled) ==
    The({ The({
      [s1 EXCEPT
         !.batch = Append(@,
            [n |-> len,
             packets |-> (IF dst_y_tiled \/ src_y_tiled
                          THEN <<set_blitter_tiling(dst_y_tiled, src_y_tiled)>>
                          ELSE <<>>)
                         \o <<p>> \o AdvanceTiled(dst_y_tiled, src_y_tiled)]),
         !.used = @ + len,
         !.emitted = Append(@, p)]
      : s1 \in {intel_batchbuffer_require_space(st, len)} })
      : len \in {BatchBltTiledLength(n, dst_y_tiled, src_y_tiled)} })

\* brw_emit_mi_flush on the blitter ring: MI_FLUSH_DW, 4 dwords
brw_emit_mi_flush(st) ==
    The({ [s1 EXCEPT !.batch = Append(@, [n |-> 4, packets |-> <<[kind |-> "mi_flush", dwords |-> 4]>>]),
                     !.used = @ + 4]
          : s1 \in {intel_batchbuffer_require_space(st, 4)} })

\* alignment_valid
alignment_valid(gen, offset, tiling) ==
    IF tiling # "I915_TILING_NONE" THEN offset % 4096 = 0
    ELSE IF gen >= 8 THEN offset % 64 = 0
    ELSE TRUE

\* intel_get_tile_dims: the width of a tile in bytes
TileWidth(tiling) ==
    IF tiling = "I915_TILING_X" THEN 512
    ELSE IF tiling = "I915_TILING_Y" THEN 128
    ELSE 1

\* intelEmitCopyBlit, "if (cpp > 4)": the copy is done with 2 or 4 bytes per
\* pixel and the x coordinates are scaled
ScaleForBigCpp(a) ==
    IF a.cpp <= 4 THEN a
    ELSE IF a.cpp % 4 = 2
    THEN [a EXCEPT !.dst_x = ToShort(@ * (a.cpp \div 2)),
                   !.dst_x2 = @ * (a.cpp \div 2),
                   !.src_x = ToShort(@ * (a.cpp \div 2)),
                   !.cpp = 2]
    ELSE [a EXCEPT !.dst_x = ToShort(@ * (a.cpp \div 4)),
                   !.dst_x2 = @ * (a.cpp \div 4),
                   !.src_x = ToShort(@ * (a.cpp \div 4)),
                   !.cpp = 4]

\* the parameters of intelEmitCopyBlit as the callee receives them: the
\* pitches, coordinates and sizes are GLshort
CopyBlitParams(a) ==
    The({ [q EXCEPT !.dst_y2 = q.dst_y + q.h, !.dst_x2 = q.dst_x + q.w]
          : q \in {[a EXCEPT !.src_pitch = ToShort(@), !.dst_pitch = ToShort(@),
                             !.src_x = ToShort(@), !.src_y = ToShort(@),
                             !.dst_x = ToShort(@), !.dst_y = ToShort(@),
                             !.w = ToShort(@), !.h = ToShort(@)]
                    @@ [dst_y2 |-> 0, dst_x2 |-> 0]} })

\* the XY_SRC_COPY_BLT packet of intelEmitCopyBlit; q has passed the checks
CopyBlitPacket(q) ==
    [kind |-> "blit",
     dwords |-> IF q.gen >= 8 THEN 10 ELSE 8,
     cpp |-> q.cpp,
     dst_pitch |-> ToU16(IF q.dst_tiling # "I915_TILING_NONE"
                         THEN CDiv(q.dst_pitch, 4) ELSE q.dst_pitch),
     src_pitch |-> ToU16(IF q.src_tiling # "I915_TILING_NONE"
                         THEN CDiv(q.src_pitch, 4) ELSE q.src_pitch),
     dst_x |-> q.dst_x, dst_y |-> q.dst_y, dst_x2 |-> q.dst_x2, dst_y2 |-> q.dst_y2,
     src_x |-> q.src_x, src_y |-> q.src_y,
     dst_offset |-> q.dst_offset, src_offset |-> q.src_offset,
     dst_tiling |-> q.dst_tiling, src_tiling |-> q.src_tiling,
     recv_src_pitch |-> q.src_pitch, recv_dst_pitch |-> q.dst_pitch]

\* the aperture check of intelEmitCopyBlit: each failing check flushes
RECURSIVE ApertureFlushes(_, _)
ApertureFlushes(st, n) ==
    IF n = 0 THEN st ELSE ApertureFlushes(intel_batchbuffer_flush(st), n - 1)

\* intelEmitCopyBlit; a.aper is the number of aperture checks that fail
intelEmitCopyBlit(st, a) ==
    The({ The({
      IF (q.dst_tiling = "I915_TILING_Y" \/ q.src_tiling = "I915_TILING_Y") /\ q.gen < 6
      THEN [ok |-> FALSE, st |-> st]
      ELSE IF q.aper >= 2
      THEN [ok |-> FALSE, st |-> ApertureFlushes(st, 2)]
      ELSE The({
        IF ~alignment_valid(q.gen, q.dst_offset, q.dst_tiling)
             \/ ~alignment_valid(q.gen, q.src_offset, q.src_tiling)
             \/ q.src_pitch % 4 # 0 \/ q.src_offset % c.cpp # 0
             \/ q.dst_pitch % 4 # 0 \/ q.dst_offset % c.cpp # 0
        THEN [ok |-> FALSE, st |-> s1]
        ELSE IF c.dst_y2 <= c.dst_y \/ c.dst_x2 <= c.dst_x
        THEN [ok |-> TRUE, st |-> s1]
        ELSE [ok |-> TRUE,
              st |-> brw_emit_mi_flush(
                       EmitTiled(s1, IF q.gen >= 8 THEN 10 ELSE 8, CopyBlitPacket(c),
                                 q.dst_tiling = "I915_TILING_Y",
                                 q.src_tiling = "I915_TILING_Y"))]
        : s1 \in {[s0 EXCEPT !.asserts = @
                      /\ q.src_pitch % TileWidth(q.src_tiling) = 0
                      /\ q.dst_pitch % TileWidth(q.dst_tiling) = 0]} })
      : c \in {ScaleForBigCpp(q)},
        s0 \in {intel_batchbuffer_require_space(
                  ApertureFlushes(st, q.aper), IF q.gen >= 8 THEN 10 ELSE 8)} })
      : q \in {CopyBlitParams(a)} })

\* the height of a tile in rows; a tile holds 4096 bytes
TileHeight(tiling) == 4096 \div TileWidth(tiling)

\* blt_pitch
blt_pitch(mt) == IF mt.tiling # "I915_TILING_NONE" THEN mt.pitch \div 4 ELSE mt.pitch

\* get_blit_intratile_offset_el: the base address offset of the tile (or,
\* linear, of the 64-byte line) the element (x, y) lies in, and its place
\* in it
get_blit_intratile_offset_el(mt, x, y) ==
    IF mt.tiling = "I915_TILING_NONE"
    THEN The({ [offset |-> base - (base % 64),
                x_el |-> (base % 64) \div mt.cpp,
                y_el |-> 0]
               : base \in {y * mt.pitch + x * mt.cpp} })
    ELSE [offset |-> (y \div TileHeight(mt.tiling)) * TileHeight(mt.tiling) * mt.pitch
                     + ((x * mt.cpp) \div TileWidth(mt.tiling)) * 4096,
          x_el |-> ((x * mt.cpp) % TileWidth(mt.tiling)) \div mt.cpp,
          y_el |-> y % TileHeight(mt.tiling)]

max_chunk_size == 16384

\* a chunk loop that runs once
ChunkStartsFirstOnly(n) == <<0>>

\* the values a chunk loop variable takes: 0, 16384, ... below n
ChunkStarts(n) == [i \in 1..((n + max_chunk_size - 1) \div max_chunk_size) |->
                     (i - 1) * max_chunk_size]

\* the (chunk_x, chunk_y) pairs in the order the two loops visit them
ChunkOrder(width, height) ==
    [k \in 1..(Len(ChunkStarts(width)) * Len(ChunkStarts(height))) |->
        [chunk_x |-> ChunkStarts(width)[((k - 1) \div Len(ChunkStarts(height))) + 1],
         chunk_y |-> ChunkStarts(height)[((k - 1) % Len(ChunkStarts(height))) + 1]]]

\* the formats of the miptrees: bytes per pixel and alpha bits
BlitFormats ==
    [MESA_FORMAT_B8G8R8A8_UNORM |-> [cpp |-> 4, alpha |-> 8, family |-> "BGR8"],
     MESA_FORMAT_B8G8R8X8_UNORM |-> [cpp |-> 4, alpha |-> 0, family |-> "BGR8"],
     MESA_FORMAT_R_UNORM8 |-> [cpp |-> 1, alpha |-> 0, family |-> "R8"],
     MESA_FORMAT_RGBA_FLOAT16 |-> [cpp |-> 8, alpha |-> 16, family |-> "RGBA16F"]]

\* intel_miptree_blit_compatible_formats
intel_miptree_blit_compatible_formats(src, dst) ==
    src = dst \/ (BlitFormats[src].family = "BGR8" /\ BlitFormats[dst].family = "BGR8")

\* the arguments intel_miptree_blit hands to intelEmitCopyBlit for a chunk
ChunkArgs(c, sx, sy, dx, dy, ch, aper) ==
    The({
      [gen |-> c.gen, cpp |-> c.src.cpp, aper |-> aper,
       src_pitch |-> IF c.src_flip = c.dst_flip THEN c.src.pitch ELSE 0 - c.src.pitch,
       src_offset |-> so.offset, src_tiling |-> c.src.tiling,
       dst_pitch |-> c.dst.pitch,
       dst_offset |-> do.offset, dst_tiling |-> c.dst.tiling,
       src_x |-> so.x_el, src_y |-> so.y_el,
       dst_x |-> do.x_el, dst_y |-> do.y_el,
       w |-> Min(max_chunk_size, c.width - ch.chunk_x),
       h |-> Min(max_chunk_size, c.height - ch.chunk_y)]
      : so \in {get_blit_intratile_offset_el(c.src, sx + ch.chunk_x, sy + ch.chunk_y)},
        do \in {get_blit_intratile_offset_el(c.dst, dx + ch.chunk_x, dy + ch.chunk_y)} })

\* the chunk loops of intel_miptree_blit from chunk k on
RECURSIVE BlitChunks(_, _, _, _, _, _, _, _)
BlitChunks(st, c, sx, sy, dx, dy, order, k) ==
    IF k > Len(order) THEN [ok |-> TRUE, st |-> st]
    ELSE The({ IF ~r.ok THEN r
               ELSE BlitChunks(r.st, c, sx, sy, dx, dy, order, k + 1)
               : r \in {intelEmitCopyBlit(st,
                           ChunkArgs(c, sx, sy, dx, dy, order[k],
                                     IF k = 1 THEN c.aper ELSE 0))} })

\* the XY_COLOR_BLT packet of intel_miptree_set_alpha_to_one for a chunk
ColorBlitPacket(gen, mt, x, y, ch, width, height) ==
    The({
      [kind |-> "color",
       dwords |-> IF gen >= 8 THEN 7 ELSE 6,
       dst_pitch |-> IF mt.tiling # "I915_TILING_NONE" THEN mt.pitch \div 4 ELSE mt.pitch,
       dst_x |-> x + ch.chunk_x, dst_y |-> y + ch.chunk_y,
       dst_x2 |-> x + ch.chunk_x + Min(max_chunk_size, width - ch.chunk_x),
       dst_y2 |-> y + ch.chunk_y + Min(max_chunk_size, height - ch.chunk_y),
       dst_offset |-> o.offset, dst_tiling |-> mt.tiling]
      : o \in {get_blit_intratile_offset_el(mt, x + ch.chunk_x, y + ch.chunk_y)} })

\* the chunk loops of intel_miptree_set_alpha_to_one from chunk k on
RECURSIVE AlphaChunks(_, _, _, _, _, _, _, _, _)
AlphaChunks(st, gen, mt, x, y, width, height, order, k) ==
    IF k > Len(order) THEN st
    ELSE AlphaChunks(
           EmitTiled(st, IF gen >= 8 THEN 7 ELSE 6,
                     ColorBlitPacket(gen, mt, x, y, order[k], width, height),
                     mt.tiling = "I915_TILING_Y", FALSE),
           gen, mt, x, y, width, height, order, k + 1)

\* intel_miptree_set_alpha_to_one; aper tells whether the aperture check fails
intel_miptree_set_alpha_to_one(st, gen, mt, x, y, width, height, aper) ==
    brw_emit_mi_flush(
      AlphaChunks(IF aper THEN intel_batchbuffer_flush(st) ELSE st,
                  gen, mt, x, y, width, height, ChunkOrder(width, height), 1))

\* intel_miptree_blit; the image offsets of level and slice are part of
\* c.src_x, c.src_y, c.dst_x, c.dst_y
intel_miptree_blit(st, c) ==
    IF c.src.num_samples > 0 \/ c.dst.num_samples > 0
    THEN [ok |-> FALSE, st |-> st]
    ELSE IF ~intel_miptree_blit_compatible_formats(c.src.format, c.dst.format)
    THEN [ok |-> FALSE, st |-> st]
    ELSE IF blt_pitch(c.src) >= 32768 \/ blt_pitch(c.dst) >= 32768
    THEN [ok |-> FALSE, st |-> st]
    ELSE The({ The({
      IF ~r.ok THEN r
      ELSE IF BlitFormats[c.src.format].alpha = 0 /\ BlitFormats[c.dst.format].alpha > 0
      THEN [ok |-> TRUE,
            st |-> intel_miptree_set_alpha_to_one(r.st, c.gen, c.dst, c.dst_x, dy,
                                                  c.width, c.height, c.alpha_aper)]
      ELSE r
      : r \in {BlitChunks(st, c, c.src_x, sy, c.dst_x, dy,
                          ChunkOrder(c.width, c.height), 1)} })
      : dy \in {IF c.dst_flip THEN c.dst.height0 - c.dst_y - c.height ELSE c.dst_y} ,
        sy \in {IF c.src_flip THEN c.src.height0 - c.src_y - c.height ELSE c.src_y} })

\* ROUND_DOWN_TO(v, 4) and ALIGN(v, 4)
RoundDownTo4(v) == v - (v % 4)
Align4(v) == ((v + 3) \div 4) * 4

\* iterations of the loop of intel_emit_linear_blit the model follows
MaxLinearIters == 4

\* the loop of intel_emit_linear_blit from its n-th iteration on; done tells
\* whether the loop was left
RECURSIVE LinearLoop(_, _, _, _, _, _)
LinearLoop(st, c, dst_offset, src_offset, size, n) ==
    IF n > MaxLinearIters THEN [done |-> FALSE, ok |-> TRUE, st |-> st]
    ELSE The({ The({
      IF ~r.ok THEN [done |-> TRUE, ok |-> FALSE, st |-> r.st]
      ELSE IF size <= v.pitch * v.height THEN [done |-> TRUE, ok |-> TRUE, st |-> r.st]
      ELSE LinearLoop(r.st, c, dst_offset + v.pitch * v.height,
                      src_offset + v.pitch * v.height,
                      size - v.pitch * v.height, n + 1)
      : r \in {intelEmitCopyBlit(
                 [st EXCEPT !.asserts = @ /\ v.src_x + v.pitch < 32768
                                          /\ v.dst_x + v.pitch < 32768],
                 [gen |-> c.gen, cpp |-> 1,
                  aper |-> IF n = 1 THEN c.aper ELSE 0,
                  src_pitch |-> v.pitch, src_offset |-> src_offset - v.src_x,
                  src_tiling |-> "I915_TILING_NONE",
                  dst_pitch |-> v.pitch, dst_offset |-> dst_offset - v.dst_x,
                  dst_tiling |-> "I915_TILING_NONE",
                  src_x |-> v.src_x, src_y |-> 0, dst_x |-> v.dst_x, dst_y |-> 0,
                  w |-> Min(size, v.pitch), h |-> v.height])} })
      : v \in {[pitch |-> Align4(Min(size, 32768 - 64)),
                height |-> IF size < RoundDownTo4(Min(size, 32768 - 64))
                              \/ RoundDownTo4(Min(size, 32768 - 64)) = 0
                           THEN 1
                           ELSE size \div RoundDownTo4(Min(size, 32768 - 64)),
                src_x |-> ToShort(src_offset % 64),
                dst_x |-> ToShort(dst_offset % 64)]} })

\* intel_emit_linear_blit
intel_emit_linear_blit(st, c) ==
    LinearLoop(st, c, c.dst_offset, c.src_offset, c.size, 1)

\* struct intel_mipmap_tree as the blitter sees it
Miptree(tiling, pitch, format) ==
    [tiling |-> tiling, pitch |-> pitch, format |-> format,
     cpp |-> BlitFormats[format].cpp, num_samples |-> 0, height0 |-> 0]

\* tiling and pitch of the source and of the destination
BlitShapes ==
    { <<<<"I915_TILING_NONE", 64>>, <<"I915_TILING_NONE", 64>>>>,
      <<<<"I915_TILING_NONE", 32704>>, <<"I915_TILING_NONE", 32704>>>>,
      <<<<"I915_TILING_NONE", 32768>>, <<"I915_TILING_NONE", 64>>>>,
      <<<<"I915_TILING_NONE", 32704>>, <<"I915_TILING_Y", 16384>>>>,
      <<<<"I915_TILING_X", 512>>, <<"I915_TILING_X", 512>>>>,
      <<<<"I915_TILING_X", 32768>>, <<"I915_TILING_X", 32768>>>>,
      <<<<"I915_TILING_X", 65536>>, <<"I915_TILING_NONE", 32704>>>>,
      <<<<"I915_TILING_X", 131072>>, <<"I915_TILING_X", 512>>>>,
      <<<<"I915_TILING_Y", 128>>, <<"I915_TILING_Y", 128>>>>,
      <<<<"I915_TILING_Y", 16384>>, <<"I915_TILING_X", 16384>>>>,
      <<<<"I915_TILING_Y", 65536>>, <<"I915_TILING_Y", 65536>>>> }

\* source and destination format
BlitFormatPairs ==
    { <<"MESA_FORMAT_B8G8R8A8_UNORM", "MESA_FORMAT_B8G8R8A8_UNORM">>,
      <<"MESA_FORMAT_B8G8R8X8_UNORM", "MESA_FORMAT_B8G8R8A8_UNORM">>,
      <<"MESA_FORMAT_R_UNORM8", "MESA_FORMAT_R_UNORM8">>,
      <<"MESA_FORMAT_RGBA_FLOAT16", "MESA_FORMAT_RGBA_FLOAT16">>,
      <<"MESA_FORMAT_R_UNORM8", "MESA_FORMAT_B8G8R8A8_UNORM">> }

\* width and height of the copy
BlitSizes == { <<1, 1>>, <<16384, 1>>, <<16385, 16385>>, <<40000, 3>>, <<3, 40000>> }

\* src_x, src_y, dst_x, dst_y
BlitOrigins == { <<0, 0, 0, 0>>, <<3, 5, 16, 9>> }

BlitGens == {5, 7, 8}

\* the rectangle lies in the miptree and the miptree in a buffer below 2 GiB
FitsMiptree(mt, x, y, width, height) ==
    /\ (x + width) * mt.cpp <= mt.pitch
    /\ y + height + 2 <= 2147483647 \div mt.pitch
    /\ (mt.tiling = "I915_TILING_NONE" => mt.pitch % 64 = 0)

MiptreeBlitCalls ==
    { c \in
        { [op |-> "intel_miptree_blit", gen |-> gen,
           src |-> [Miptree(sh[1][1], sh[1][2], fp[1]) EXCEPT !.height0 = o[2] + sz[2] + 2],
           dst |-> [Miptree(sh[2][1], sh[2][2], fp[2]) EXCEPT !.height0 = o[4] + sz[2] + 2],
           src_x |-> o[1], src_y |-> o[2], dst_x |-> o[3], dst_y |-> o[4],
           src_flip |-> fl, dst_flip |-> FALSE,
           width |-> sz[1], height |-> sz[2],
           aper |-> ap, alpha_aper |-> (ap = 1)]
          : gen \in BlitGens, sh \in BlitShapes, fp \in BlitFormatPairs,
            sz \in BlitSizes, o \in BlitOrigins, fl \in BOOLEAN, ap \in 0..2 } :
        /\ FitsMiptree(c.src, c.src_x, c.src_y, c.width, c.height)
        /\ FitsMiptree(c.dst, c.dst_x, c.dst_y, c.width, c.height) }

\* the sizes of linear copies, in bytes
LinearSizes ==
    {0, 1, 3, 4, 7, 100, 32703, 32704, 32705, 65408, 70000,
     32704 * 32767, 32704 * 32767 + 5, 32704 * 32768, 32704 * 32768 + 9,
     32704 * 32769 + 32703}

LinearBlitCalls ==
    [op : {"intel_emit_linear_blit"}, gen : BlitGens,
     dst_offset : {0, 1, 64}, src_offset : {0, 63, 100},
     size : LinearSizes, aper : 0..2]

\* blt at the start of a call: the batch goes on, the outcome is cleared
BeginCall(b) == [b EXCEPT !.ok = FALSE, !.emitted = <<>>, !.asserts = TRUE, !.done = TRUE]

\* intel_miptree_blit with the arguments blt.call
MiptreeBlit ==
    /\ blt.call.op = "intel_miptree_blit"
    /\ \E r \in {intel_miptree_blit(BeginCall(blt), blt.call)} :
         blt' = [r.st EXCEPT !.ok = r.ok]
    /\ UNCHANGED <<swrVars, droidVars, dpy>>

\* intel_emit_linear_blit with the arguments blt.call
LinearBlit ==
    /\ blt.call.op = "intel_emit_linear_blit"
    /\ \E r \in {intel_emit_linear_blit(BeginCall(blt), blt.call)} :
         blt' = [r.st EXCEPT !.ok = r.ok, !.done = r.done]
    /\ UNCHANGED <<swrVars, droidVars, dpy>>

\* the batch is flushed between two blits (it is full, or rendering needs it)
BatchFlush ==
    /\ blt.batch # <<>>
    /\ blt' = intel_batchbuffer_flush(blt)
    /\ UNCHANGED <<swrVars, droidVars, dpy>>

InitBlit ==
    /\ templ = Template(BufferTarget, <<"PIPE_FORMAT_R8_UNORM", {}>>, 1, 1, 0)
    /\ res = NoRes /\ heap = {} /\ ret = NoCall
    /\ screen = NewScreen /\ log = <<>>
    /\ surf = NoSurface /\ win = NewWindow /\ egl = NoThreads
    /\ dpy = NoDisplay
    /\ \E c \in MiptreeBlitCalls \cup LinearBlitCalls : blt = [NoBlits EXCEPT !.call = c]

NextBlit == MiptreeBlit \/ LinearBlit \/ BatchFlush

SpecBlit == InitBlit /\ [][NextBlit]_vars

\* the XY_SRC_COPY_BLT packets of the last call, in order
CopyBlits(b) == SelectSeq(b.emitted, LAMBDA p : p.kind = "blit")

(***************************************************************************)
(* C24: intel_miptree_blit uses the blitter only when each miptree's pitch  *)
(* is below 32k bytes (linear) or 128k bytes (tiled), and for every blit it *)
(* emits the pitches intelEmitCopyBlit receives in its GLshort parameters   *)
(* equal the miptrees' pitches (the source's negated for a flipped copy).   *)
(***************************************************************************)
C24_PitchReceivedUntruncated ==
    (blt.call.op = "intel_miptree_blit" /\ CopyBlits(blt) # <<>>) =>
        /\ blt_pitch(blt.call.src) < 32768
        /\ blt_pitch(blt.call.dst) < 32768
        /\ \A k \in 1..Len(CopyBlits(blt)) :
              /\ CopyBlits(blt)[k].recv_src_pitch =
                    (IF blt.call.src_flip = blt.call.dst_flip
                     THEN blt.call.src.pitch ELSE 0 - blt.call.src.pitch)
              /\ CopyBlits(blt)[k].recv_dst_pitch = blt.call.dst.pitch

\* the element of miptree mt a blit packet addresses with base address
\* offset, x and y (x in units of pcpp bytes)
BlitPosition(mt, offset, x, y, pcpp) ==
    IF mt.tiling = "I915_TILING_NONE"
    THEN [x |-> ((offset + y * mt.pitch + x * pcpp) % mt.pitch) \div mt.cpp,
          y |-> (offset + y * mt.pitch + x * pcpp) \div mt.pitch]
    ELSE [x |-> (((offset \div 4096) % (mt.pitch \div TileWidth(mt.tiling)))
                   * TileWidth(mt.tiling) + x * pcpp) \div mt.cpp,
          y |-> ((offset \div 4096) \div (mt.pitch \div TileWidth(mt.tiling)))
                   * TileHeight(mt.tiling) + y]

\* the row the copy starts at in a miptree, after the flip
BlitOriginY(mt, y, flip, height) == IF flip THEN mt.height0 - y - height ELSE y

\* the chunk a copy blit packet p of call c covers, relative to the origin of
\* the copy in the source (sx, sy) and in the destination (dx, dy)
ChunkOf(c, p) ==
    The({
      [sx |-> sp.x - c.src_x,
       sy |-> sp.y - BlitOriginY(c.src, c.src_y, c.src_flip, c.height),
       dx |-> dp.x - c.dst_x,
       dy |-> dp.y - BlitOriginY(c.dst, c.dst_y, c.dst_flip, c.height),
       w |-> ((p.dst_x2 - p.dst_x) * p.cpp) \div c.dst.cpp,
       h |-> p.dst_y2 - p.dst_y]
      : sp \in {BlitPosition(c.src, p.src_offset, p.src_x, p.src_y, p.cpp)},
        dp \in {BlitPosition(c.dst, p.dst_offset, p.dst_x, p.dst_y, p.cpp)} })

\* the chunks of the last call
Chunks(b) == [k \in 1..Len(CopyBlits(b)) |-> ChunkOf(b.call, CopyBlits(b)[k])]

RECURSIVE ChunkArea(_)
ChunkArea(cs) == IF cs = <<>> THEN 0 ELSE Head(cs).w * Head(cs).h + ChunkArea(Tail(cs))

ChunksDisjoint(a, b) ==
    \/ a.sx + a.w <= b.sx \/ b.sx + b.w <= a.sx
    \/ a.sy + a.h <= b.sy \/ b.sy + b.h <= a.sy

(***************************************************************************)
(* C25: intel_miptree_blit splits a width x height copy into chunks that    *)
(* partition the rectangle: each chunk is at most 16384 wide and high and   *)
(* lies in the rectangle, the chunks are pairwise disjoint and their areas  *)
(* add up to width * height, so every pixel is covered exactly once; the    *)
(* source and the destination chunk are at the same relative position.      *)
(***************************************************************************)
C25_ChunksPartition ==
    (blt.call.op = "intel_miptree_blit" /\ blt.ok) =>
        \E cs \in {Chunks(blt)} :
           /\ \A k \in 1..Len(cs) :
                 /\ cs[k].w >= 1 /\ cs[k].w <= 16384
                 /\ cs[k].h >= 1 /\ cs[k].h <= 16384
                 /\ cs[k].sx >= 0 /\ cs[k].sx + cs[k].w <= blt.call.width
                 /\ cs[k].sy >= 0 /\ cs[k].sy + cs[k].h <= blt.call.height
                 /\ cs[k].dx = cs[k].sx
                 /\ cs[k].dy = cs[k].sy
           /\ \A j \in 1..Len(cs) : \A k \in (j + 1)..Len(cs) :
                 ChunksDisjoint(cs[j], cs[k])
           /\ ChunkArea(cs) = blt.call.width * blt.call.height

\* a copy of 16385 x 16385 pixels was split into four chunks
C25_Witness ==
    /\ blt.call.op = "intel_miptree_blit"
    /\ blt.ok
    /\ blt.call.width = 16385 /\ blt.call.height = 16385
    /\ Len(CopyBlits(blt)) = 4

\* a blit packet with a Y-tiled source or destination
IsYTiledBlit(p) ==
    /\ p.kind \in {"blit", "color"}
    /\ \/ p.dst_tiling = "I915_TILING_Y"
       \/ (p.kind = "blit" /\ p.src_tiling = "I915_TILING_Y")

RECURSIVE PacketDwords(_)
PacketDwords(ps) == IF ps = <<>> THEN 0 ELSE Head(ps).dwords + PacketDwords(Tail(ps))

\* a reservation that holds a blit is the blit alone, or, Y-tiled, the blit
\* between the switch to its tiling and the reset, 14 dwords longer
ReservationBracketed(r) ==
    \A i \in 1..Len(r.packets) :
       r.packets[i].kind \in {"blit", "color"} =>
          IF IsYTiledBlit(r.packets[i])
          THEN /\ Len(r.packets) = 3 /\ i = 2
               /\ r.packets[1] = set_blitter_tiling(
                                    r.packets[2].dst_tiling = "I915_TILING_Y",
                                    r.packets[2].kind = "blit"
                                      /\ r.packets[2].src_tiling = "I915_TILING_Y")
               /\ r.packets[3] = set_blitter_tiling(FALSE, FALSE)
               /\ r.n = r.packets[2].dwords + 14
               /\ r.n = PacketDwords(r.packets)
          ELSE /\ Len(r.packets) = 1
               /\ r.n = r.packets[1].dwords

(***************************************************************************)
(* C26: every blit with a Y-tiled source or destination is bracketed,       *)
(* inside one batch reservation, by the switch of the blitter tiling        *)
(* register to the requested state before it and the reset to (not Y, not   *)
(* Y) after it, the reservation being 14 dwords (two packets of 7) longer   *)
(* than the blit; so the tiling state left at every batch boundary is the   *)
(* default one.                                                             *)
(***************************************************************************)
C26_TilingBracketed ==
    /\ \A i \in 1..Len(blt.batch) : ReservationBracketed(blt.batch[i])
    /\ blt.used <= BatchDwords
    /\ blt.hw = NoTiling
    /\ \A i \in 0..Len(blt.batch) : ExecBatch(SubSeq(blt.batch, 1, i), blt.hw) = NoTiling

\* a batch with a Y-tiled blit was flushed, and the next one holds another
C26_Witness ==
    /\ blt.ok
    /\ \E i \in 1..Len(blt.batch) : \E j \in 1..Len(blt.batch[i].packets) :
          IsYTiledBlit(blt.batch[i].packets[j])
    /\ \E k \in 1..Len(blt.emitted) :
          /\ IsYTiledBlit(blt.emitted[k])
          /\ \A i \in 1..Len(blt.batch) : \A j \in 1..Len(blt.batch[i].packets) :
                blt.batch[i].packets[j] # blt.emitted[k]

\* the bytes a copy blit packet of a linear copy covers: rows of w bytes
\* that follow each other when the pitch is w
LinearBytes(p) == (p.dst_x2 - p.dst_x) * (p.dst_y2 - p.dst_y)

\* the copy blit packets ps cover consecutive byte ranges from src and dst on
RECURSIVE LinearConsecutive(_, _, _)
LinearConsecutive(ps, src, dst) ==
    IF ps = <<>> THEN TRUE
    ELSE /\ Head(ps).src_offset + Head(ps).src_x = src
         /\ Head(ps).dst_offset + Head(ps).dst_x = dst
         /\ Head(ps).src_y = 0 /\ Head(ps).dst_y = 0
         /\ (Head(ps).dst_y2 > 1 =>
               /\ Head(ps).dst_pitch = Head(ps).dst_x2 - Head(ps).dst_x
               /\ Head(ps).src_pitch = Head(ps).dst_x2 - Head(ps).dst_x)
         /\ LinearConsecutive(Tail(ps), src + LinearBytes(Head(ps)),
                              dst + LinearBytes(Head(ps)))

RECURSIVE LinearTotal(_)
LinearTotal(ps) == IF ps = <<>> THEN 0 ELSE LinearBytes(Head(ps)) + LinearTotal(Tail(ps))

(***************************************************************************)
(* C27: intel_emit_linear_blit terminates for every size; when every copy   *)
(* blit succeeds, the rectangles it emits cover consecutive, non-           *)
(* overlapping byte ranges from the given source and destination offsets    *)
(* on, whose lengths add up to size; its assertions src_x + pitch < 2^15    *)
(* and dst_x + pitch < 2^15 hold in every iteration.                        *)
(***************************************************************************)
C27_LinearBlitCovers ==
    (blt.call.op = "intel_emit_linear_blit" /\ blt.call.aper < 2) =>
        /\ blt.done
        /\ blt.asserts
        /\ blt.ok =>
              /\ LinearConsecutive(CopyBlits(blt), blt.call.src_offset, blt.call.dst_offset)
              /\ LinearTotal(CopyBlits(blt)) = blt.call.size

====
